---- MODULE Spec2Model ----
(***************************************************************************)
(* The data-handling pipeline of autopv-cli: the PII scrubber              *)
(* (src/src/utils/scrub.ts), the GDPR classifier (src/unnamed/part_002)    *)
(* and the orchestrator Generate.run (src/src/commands/generate.ts) with   *)
(* the collaborators it calls.                                             *)
(*                                                                         *)
(* A string is a sequence of one-character strings.  A hierarchical value  *)
(* is a tagged record: [k |-> "undef"], [k |-> "null"], [k |-> "num", v],  *)
(* [k |-> "bool", v], [k |-> "str", v |-> chars], [k |-> "arr", v |->      *)
(* sequence of values], [k |-> "obj", v |-> sequence of [key, val]] (an    *)
(* object keeps its entries in insertion order, as Object.entries does).   *)
(***************************************************************************)
EXTENDS Integers, Sequences, FiniteSets, TLC

VARIABLES
    \* ---- scrubber on its own (ScrubSpec) ----
    input,        \* the value handed to scrubObject
    config,       \* the ScrubConfig the PIIScrubber was constructed with
    output,       \* the value scrubObject returned
    spc,          \* "ready" before the call, "done" after it, "idle" when unused
    heap,         \* the arrays and objects that exist, by address
    inputRef,     \* the value handed to scrubObject, as the program holds it:
                  \* a primitive, or the address of an array or object
    outputRef,    \* the value scrubObject returned, held the same way
    \* ---- the classifier on its own (ClassifySpec) ----
    cdata,        \* the value handed to classifyData
    reply,        \* what the reasoning service does with the request
    request,      \* the request sent to the reasoning service, if any
    cresult,      \* the ClassificationResult classifyData returned
    cerror,       \* the error classifyData was rejected with
    cpc,          \* "ready", "awaiting" the service, "returned", "failed";
                  \* "idle" when unused
    \* ---- one run of Generate.run (Spec) ----
    pc,           \* where the run is: "init", awaiting "github" or "stripe",
                  \* "classify" (step 5 reached), "failed"; "off" when unused
    env,          \* process.env after the encrypted config is merged in:
                  \* which credentials are set
    world,        \* what the external services answer in this run
    perf,         \* the PerformanceMonitor of the run
    stages,       \* the stages begun so far, in order
    calls,        \* the external requests made so far, in order
    githubData,   \* result of GitHubProvider.exportUserData
    stripeData,   \* stripeData of Generate.run
    mergedData,   \* mergedData of Generate.run
    scrubResult,  \* scrubResult of Generate.run
    log,          \* what this.log has reported, as tags
    error,        \* the error the run was rejected with, "none" if none
    \* ---- a StreamProcessor instance (StreamSpec) ----
    chunkSize,      \* the chunkSize the instance was constructed with
    processedCount, \* the processedCount field of the instance
    streamItems,    \* the items of the traversal in progress (or the last one)
    mode,           \* "chunks" (processInChunks) or "sequential" (processSequentially)
    idx,            \* the loop variable i
    results,        \* the local results array of the traversal
    invoked,        \* the arguments the worker was invoked with, in order
    inFlight,       \* worker invocations that have not settled
    yields,         \* the setImmediate yields of the traversal
    reports,        \* the onProgress reports of the traversal, in order
    returned,       \* what the traversal's promise resolved with, if it has
    rejection,      \* the error the traversal's promise was rejected with
    workerError,    \* the error the worker's promise was rejected with
    traversal,      \* how many traversals were started on the instance
    outcomes,       \* one record for each traversal that has ended
    tpc,            \* "idle", "working" (awaiting the worker), "yielding"
                    \* (awaiting setImmediate), "done", "failed"; "off" when unused
    \* ---- a DataBuffer instance (BufferSpec) ----
    maxSize,        \* the maxSize the buffer was constructed with
    buffer,         \* the buffer field
    batches,        \* the arguments flushCallback was invoked with, in order
    unresolved,     \* the invocations of flushCallback whose promise is pending
    added,          \* how many items were added; the items are 1, 2, ...
    flushCalls,     \* one record for each call of flush() by the client
    \* ---- a FileCleanup instance (CleanupSpec) ----
    maxAgeHours,    \* the maxAgeHours the instance was constructed with
    disk,           \* the target directory before the call
    diskAfter,      \* the entries of the target directory after the call
    cleanupResult,  \* the CleanupResult the call returned
    cleanupThrew,   \* whether the call threw
    fpc,            \* "ready", "done"; "off" when unused
    \* ---- a PerformanceMonitor and its client (MonitorSpec) ----
    monitor,        \* the PerformanceMonitor
    gcExposed,      \* whether global.gc is defined
    consoleOut,     \* what the monitor wrote with console.warn and console.log
    monitorThrew,   \* whether an operation of the monitor threw
    clientStage,    \* the pipeline stage the client is in, 0 to 7
    monitorOps,     \* how many operations and samples there have been
    lastOp          \* the last operation: "sample", "updateProgress",
                    \* "forceGarbageCollection", "stop"; "none" at first

svars == <<input, config, output, spc, heap, inputRef, outputRef>>
cvars == <<cdata, reply, request, cresult, cerror, cpc>>
rvars == <<pc, env, world, perf, stages, calls, githubData, stripeData,
           mergedData, scrubResult, log, error>>
tvars == <<chunkSize, processedCount, streamItems, mode, idx, results, invoked, inFlight,
           yields, reports, returned, rejection, workerError, traversal, outcomes, tpc>>
bvars == <<maxSize, buffer, batches, unresolved, added, flushCalls>>
fvars == <<maxAgeHours, disk, diskAfter, cleanupResult, cleanupThrew, fpc>>
mvars == <<monitor, gcExposed, consoleOut, monitorThrew, clientStage, monitorOps, lastOp>>
uvars == <<tvars, bvars, fvars, mvars>>
vars == <<svars, cvars, rvars, uvars>>

\* the StreamProcessor harness is not in use
StreamIdle ==
    /\ chunkSize = 0 /\ processedCount = 0 /\ streamItems = << >> /\ mode = "none"
    /\ idx = 0 /\ results = << >> /\ invoked = << >> /\ inFlight = 0 /\ yields = 0
    /\ reports = << >> /\ returned = [ok |-> FALSE] /\ rejection = "none"
    /\ workerError = "none" /\ traversal = 0 /\ outcomes = << >> /\ tpc = "off"

\* the DataBuffer harness is not in use
BufferIdle ==
    /\ maxSize = 0 /\ buffer = << >> /\ batches = << >> /\ unresolved = {}
    /\ added = 0 /\ flushCalls = << >>

\* the FileCleanup harness is not in use
CleanupIdle ==
    /\ maxAgeHours = 0 /\ disk = [exists |-> FALSE, readable |-> FALSE, files |-> << >>]
    /\ diskAfter = << >> /\ cleanupResult = [returned |-> FALSE]
    /\ cleanupThrew = FALSE /\ fpc = "off"

\* the PerformanceMonitor harness is not in use
MonitorIdle ==
    /\ monitor = [timer |-> FALSE] /\ gcExposed = FALSE /\ consoleOut = << >>
    /\ monitorThrew = FALSE /\ clientStage = 0 /\ monitorOps = 0 /\ lastOp = "off"

\* the utility harnesses are not in use
UtilitiesIdle == StreamIdle /\ BufferIdle /\ CleanupIdle /\ MonitorIdle

----------------------------------------------------------------------------
(* Characters and character classes                                        *)

Digit == {"0", "1", "2", "3", "4", "5", "6", "7", "8", "9"}
Lower == {"a", "b", "c", "d", "e", "f", "g", "h", "i", "j", "k", "l", "m",
          "n", "o", "p", "q", "r", "s", "t", "u", "v", "w", "x", "y", "z"}
Upper == {"A", "B", "C", "D", "E", "F", "G", "H", "I", "J", "K", "L", "M",
          "N", "O", "P", "Q", "R", "S", "T", "U", "V", "W", "X", "Y", "Z"}
Alnum == Lower \cup Upper \cup Digit
\* \w of the regular expressions, which decides \b
WordChar == Alnum \cup {"_"}
\* \s restricted to the white space the inputs use
WhiteSpace == {" "}

----------------------------------------------------------------------------
(* Regular expressions: the syntax tree of a pattern and the backtracking  *)
(* matcher of String.prototype.replace / match.  M returns every way the   *)
(* node can match at position i, in the order the backtracking engine      *)
(* tries them (greedy repetition first, alternatives left to right), each  *)
(* as <<next position, capture>>; the engine takes the first.              *)

Cls(S) == [t |-> "cls", set |-> {x : x \in S}]
Cat(subs) == [t |-> "cat", subs |-> subs]
Alt(subs) == [t |-> "alt", subs |-> subs]
\* greedy repetition {min,max}; max = -1 is unbounded
Rep(sub, min, max) == [t |-> "rep", sub |-> sub, min |-> min, max |-> max]
Opt(sub) == Rep(sub, 0, 1)
Plus(sub) == Rep(sub, 1, -1)
Star(sub) == Rep(sub, 0, -1)
WB == [t |-> "wb"]
Group1(sub) == [t |-> "cap", sub |-> sub]
\* one single-character class per character of a literal
RECURSIVE ClsEach(_, _)
ClsEach(chars, k) ==
    IF k > Len(chars) THEN << >> ELSE <<Cls({chars[k]})>> \o ClsEach(chars, k + 1)
\* a literal, case-sensitive
Lit(chars) == Cat(ClsEach(chars, 1))

NoCapture == <<0, 0>>

IsWordAt(s, i) == i >= 1 /\ i <= Len(s) /\ s[i] \in WordChar

RECURSIVE M(_, _, _, _)
RECURSIVE MCat(_, _, _, _, _)
RECURSIVE MAlt(_, _, _, _, _)
RECURSIVE MRep(_, _, _, _, _)
RECURSIVE MThen(_, _, _, _, _)
RECURSIVE MRepThen(_, _, _, _, _)

\* the number of consecutive characters of the class from position i on
RunLen(s, i, set) ==
    CHOOSE r \in 0..(Len(s) - i + 1) :
        /\ \A j \in i..(i + r - 1) : s[j] \in set
        /\ i + r > Len(s) \/ s[i + r] \notin set

Min(a, b) == IF a < b THEN a ELSE b

\* text p starts with text q
StartsWith(p, q) == Len(p) >= Len(q) /\ SubSeq(p, 1, Len(q)) = q

\* text a occurs in text b
IsSubstring(a, b) ==
    \E i \in 1..(Len(b) - Len(a) + 1) : SubSeq(b, i, i + Len(a) - 1) = a

\* greedy repetition of a character class: the longest run first, then
\* one character fewer at a time down to min
RepCls(n, s, i, cap) ==
    LET run == RunLen(s, i, n.sub.set)
        hi == IF n.max = -1 THEN run ELSE Min(run, n.max)
    IN  IF hi < n.min THEN << >>
        ELSE [j \in 1..(hi - n.min + 1) |-> <<i + hi - (j - 1), cap>>]

M(n, s, i, cap) ==
    CASE n.t = "cls" -> IF i <= Len(s) /\ s[i] \in n.set
                        THEN << <<i + 1, cap>> >> ELSE << >>
      [] n.t = "wb"  -> IF IsWordAt(s, i - 1) # IsWordAt(s, i)
                        THEN << <<i, cap>> >> ELSE << >>
      [] n.t = "cat" -> MCat(n.subs, 1, s, i, cap)
      [] n.t = "alt" -> MAlt(n.subs, 1, s, i, cap)
      [] n.t = "rep" -> IF n.sub.t = "cls" THEN RepCls(n, s, i, cap)
                        ELSE MRep(n, 0, s, i, cap)
      [] n.t = "cap" -> LET r == M(n.sub, s, i, cap)
                        IN  [j \in 1..Len(r) |-> <<r[j][1], <<i, r[j][1]>> >>]

\* continue the concatenation subs[k..] from each result of r[j..]
MThen(r, j, subs, k, s) ==
    IF j > Len(r) THEN << >>
    ELSE MCat(subs, k, s, r[j][1], r[j][2]) \o MThen(r, j + 1, subs, k, s)

MCat(subs, k, s, i, cap) ==
    IF k > Len(subs) THEN << <<i, cap>> >>
    ELSE MThen(M(subs[k], s, i, cap), 1, subs, k + 1, s)

MAlt(subs, k, s, i, cap) ==
    IF k > Len(subs) THEN << >>
    ELSE M(subs[k], s, i, cap) \o MAlt(subs, k + 1, s, i, cap)

\* one more iteration from each result of r[j..] that consumed something
MRepThen(r, j, n, count, s) ==
    IF j > Len(r) THEN << >>
    ELSE MRep(n, count, s, r[j][1], r[j][2]) \o MRepThen(r, j + 1, n, count, s)

MRep(n, count, s, i, cap) ==
    LET more == IF n.max = -1 \/ count < n.max
                THEN LET r == M(n.sub, s, i, cap)
                         adv == SelectSeq(r, LAMBDA x : x[1] > i)
                     IN  MRepThen(adv, 1, n, count + 1, s)
                ELSE << >>
        stop == IF count >= n.min THEN << <<i, cap>> >> ELSE << >>
    IN  more \o stop

\* the leftmost position with a match and the first way it matches there:
\* <<start, end, capture>>, or <<0, 0, NoCapture>> when rs has no match;
\* rs[i] is what M gives at position i
Leftmost(rs) ==
    LET starts == {i \in DOMAIN rs : rs[i] # << >>}
    IN  IF starts = {} THEN <<0, 0, NoCapture>>
        ELSE LET i == CHOOSE x \in starts : \A y \in starts : x <= y
             IN  <<i, rs[i][1][1], rs[i][1][2]>>

\* character classes every match of a node has a character of: a text with
\* no character of one of them holds no match, whatever the position
RECURSIVE Needs(_)
RECURSIVE NeedsOfAll(_, _)
RECURSIVE NeedsOfEach(_, _)
Fewest(classes) ==
    CHOOSE c \in classes : \A d \in classes : Cardinality(c) <= Cardinality(d)
NeedsOfAll(subs, k) ==
    IF k > Len(subs) THEN {} ELSE Needs(subs[k]) \cup NeedsOfAll(subs, k + 1)
\* one class per alternative, united; nothing when an alternative needs nothing
NeedsOfEach(subs, k) ==
    IF k > Len(subs) THEN {}
    ELSE Fewest(Needs(subs[k])) \cup NeedsOfEach(subs, k + 1)
Needs(n) ==
    CASE n.t = "cls" -> {n.set}
      [] n.t = "wb"  -> {}
      [] n.t = "cat" -> NeedsOfAll(n.subs, 1)
      [] n.t = "alt" -> IF \A k \in 1..Len(n.subs) : Needs(n.subs[k]) # {}
                        THEN {NeedsOfEach(n.subs, 1)} ELSE {}
      [] n.t = "rep" -> IF n.min >= 1 THEN Needs(n.sub) ELSE {}
      [] n.t = "cap" -> Needs(n.sub)

\* a regular expression: its syntax tree, and the classes a match needs
Pattern(tree) == [re |-> tree, needs |-> {{x : x \in c} : c \in Needs(tree)}]

CanMatch(p, s) == \A c \in p.needs : \E i \in 1..Len(s) : s[i] \in c

\* the first match at or after position from
FirstMatch(p, s, from) ==
    IF ~CanMatch(p, s) THEN <<0, 0, NoCapture>>
    ELSE Leftmost([i \in from..(Len(s) + 1) |-> M(p.re, s, i, NoCapture)])

Test(n, s) == FirstMatch(n, s, 1)[1] # 0

Slice(s, a, b) == SubSeq(s, a, b - 1)

\* text.match(/p/g): the non-overlapping matches, left to right
RECURSIVE MatchAll(_, _, _)
MatchAll(n, s, from) ==
    LET m == FirstMatch(n, s, from)
    IN  IF m[1] = 0 THEN << >>
        ELSE <<m>> \o MatchAll(n, s, IF m[2] = m[1] THEN m[2] + 1 ELSE m[2])

----------------------------------------------------------------------------
(* PIIScrubber.PATTERNS                                                    *)

\* a literal under the i flag: each character matches in either case
RECURSIVE ClsEachCI(_, _, _)
ClsEachCI(lower, upper, k) ==
    IF k > Len(lower) THEN << >>
    ELSE <<Cls({lower[k], upper[k]})>> \o ClsEachCI(lower, upper, k + 1)
LitCI(lower, upper) == Cat(ClsEachCI(lower, upper, 1))

\* /\b[A-Za-z0-9._%+-]+@[A-Za-z0-9.-]+\.[A-Z|a-z]{2,}\b/g
email ==
    Pattern(Cat(<<WB, Plus(Cls(Alnum \cup {".", "_", "%", "+", "-"})), Cls({"@"}),
          Plus(Cls(Alnum \cup {".", "-"})), Cls({"."}),
          Rep(Cls(Upper \cup Lower \cup {"|"}), 2, -1), WB>>))

PhoneSep == Opt(Cls({"-", "."} \cup WhiteSpace))

\* /(\+?1[-.\s]?)?\(?([0-9]{3})\)?[-.\s]?([0-9]{3})[-.\s]?([0-9]{4})/g
phone ==
    Pattern(Cat(<<Opt(Cat(<<Opt(Cls({"+"})), Cls({"1"}), PhoneSep>>)),
          Opt(Cls({"("})), Rep(Cls(Digit), 3, 3), Opt(Cls({")"})), PhoneSep,
          Rep(Cls(Digit), 3, 3), PhoneSep, Rep(Cls(Digit), 4, 4)>>))

\* /\b\d{3}-?\d{2}-?\d{4}\b/g
ssn ==
    Pattern(Cat(<<WB, Rep(Cls(Digit), 3, 3), Opt(Cls({"-"})), Rep(Cls(Digit), 2, 2),
          Opt(Cls({"-"})), Rep(Cls(Digit), 4, 4), WB>>))

\* /\b(?:\d{4}[-\s]?){3}\d{4}\b/g
creditCard ==
    Pattern(Cat(<<WB,
          Rep(Cat(<<Rep(Cls(Digit), 4, 4), Opt(Cls({"-"} \cup WhiteSpace))>>), 3, 3),
          Rep(Cls(Digit), 4, 4), WB>>))

\* /\b(?:[0-9]{1,3}\.){3}[0-9]{1,3}\b/g
ipAddress ==
    Pattern(Cat(<<WB, Rep(Cat(<<Rep(Cls(Digit), 1, 3), Cls({"."})>>), 3, 3),
          Rep(Cls(Digit), 1, 3), WB>>))

KeySep == Opt(Cls({"_", "-"}))

\* /\b(?:api[_-]?key|secret[_-]?key|access[_-]?token)\s*[:=]\s*['\"]?([a-zA-Z0-9_-]+)['\"]?/gi
apiKey ==
    Pattern(Cat(<<WB,
          Alt(<<Cat(<<LitCI(<<"a", "p", "i">>, <<"A", "P", "I">>), KeySep,
                      LitCI(<<"k", "e", "y">>, <<"K", "E", "Y">>)>>),
                Cat(<<LitCI(<<"s", "e", "c", "r", "e", "t">>, <<"S", "E", "C", "R", "E", "T">>),
                      KeySep, LitCI(<<"k", "e", "y">>, <<"K", "E", "Y">>)>>),
                Cat(<<LitCI(<<"a", "c", "c", "e", "s", "s">>, <<"A", "C", "C", "E", "S", "S">>),
                      KeySep,
                      LitCI(<<"t", "o", "k", "e", "n">>, <<"T", "O", "K", "E", "N">>)>>)>>),
          Star(Cls(WhiteSpace)), Cls({":", "="}), Star(Cls(WhiteSpace)),
          Opt(Cls({"'", "\""})),
          Group1(Plus(Cls(Alnum \cup {"_", "-"}))),
          Opt(Cls({"'", "\""}))>>))

\* /\bghp_[a-zA-Z0-9]{36}\b/g
githubToken ==
    Pattern(Cat(<<WB, Lit(<<"g", "h", "p", "_">>), Rep(Cls(Alnum), 36, 36), WB>>))

\* /\b(?:sk|pk)_(?:test|live)_[a-zA-Z0-9]{24,}\b/g
stripeKey ==
    Pattern(Cat(<<WB, Alt(<<Lit(<<"s", "k">>), Lit(<<"p", "k">>)>>), Cls({"_"}),
          Alt(<<Lit(<<"t", "e", "s", "t">>), Lit(<<"l", "i", "v", "e">>)>>),
          Cls({"_"}), Rep(Cls(Alnum), 24, -1), WB>>))

----------------------------------------------------------------------------
(* PIIScrubber                                                             *)

REDACTED == <<"[", "R", "E", "D", "A", "C", "T", "E", "D", "]">>

\* a ScrubConfig is a function from the option names it sets to their values
Dflt(c, f, d) == IF f \in DOMAIN c THEN c[f] ELSE d

\* no configuration supplied: the default argument {}
NoConfig == << >>

\* constructor(config = {})
PIIScrubber(c) ==
    [maskEmails         |-> Dflt(c, "maskEmails", TRUE),
     maskPhones         |-> Dflt(c, "maskPhones", TRUE),
     maskSSNs           |-> Dflt(c, "maskSSNs", TRUE),
     maskCreditCards    |-> Dflt(c, "maskCreditCards", TRUE),
     maskIPAddresses    |-> Dflt(c, "maskIPAddresses", FALSE),
     maskCustomPatterns |-> Dflt(c, "maskCustomPatterns", << >>),
     placeholder        |-> Dflt(c, "placeholder", REDACTED)]

\* the replacement text of one match: the placeholder, or for the apiKey
\* pass the template `$1: ${placeholder}`
Replacement(s, m, ph, template) ==
    IF template THEN Slice(s, m[3][1], m[3][2]) \o <<":", " ">> \o ph ELSE ph

\* s.replace(/p/g, replacement), scanning from position from
RECURSIVE ReplaceFrom(_, _, _, _, _)
ReplaceFrom(n, s, from, ph, template) ==
    LET m == FirstMatch(n, s, from)
    IN  IF m[1] = 0 THEN Slice(s, from, Len(s) + 1)
        ELSE Slice(s, from, m[1]) \o Replacement(s, m, ph, template)
             \o ReplaceFrom(n, s, m[2], ph, template)

Replace(s, n, ph) == ReplaceFrom(n, s, 1, ph, FALSE)
ReplaceApiKey(s, ph) == ReplaceFrom(apiKey, s, 1, ph, TRUE)

RECURSIVE ReplaceCustom(_, _, _, _)
ReplaceCustom(s, pats, k, ph) ==
    IF k > Len(pats) THEN s
    ELSE ReplaceCustom(Replace(s, pats[k], ph), pats, k + 1, ph)

\* one conditional pass of scrubString: if (enabled) s = s.replace(n, ph)
MaskIf(enabled, s, n, ph) == IF enabled THEN Replace(s, n, ph) ELSE s

\* scrubString(text) of a scrubber with configuration cfg: the passes in
\* source order, the innermost first: email, phone, ssn, creditCard,
\* ipAddress, then always apiKey, githubToken, stripeKey, then the custom
\* patterns
scrubString(text, cfg) ==
    ReplaceCustom(
        Replace(
            Replace(
                ReplaceApiKey(
                    MaskIf(cfg.maskIPAddresses,
                        MaskIf(cfg.maskCreditCards,
                            MaskIf(cfg.maskSSNs,
                                MaskIf(cfg.maskPhones,
                                    MaskIf(cfg.maskEmails, text, email, cfg.placeholder),
                                    phone, cfg.placeholder),
                                ssn, cfg.placeholder),
                            creditCard, cfg.placeholder),
                        ipAddress, cfg.placeholder),
                    cfg.placeholder),
                githubToken, cfg.placeholder),
            stripeKey, cfg.placeholder),
        cfg.maskCustomPatterns, 1, cfg.placeholder)

Undefined == [k |-> "undef"]
Null == [k |-> "null"]
Num(n) == [k |-> "num", v |-> n]
Bool(b) == [k |-> "bool", v |-> b]
Str(chars) == [k |-> "str", v |-> chars]
Arr(items) == [k |-> "arr", v |-> items]
Obj(entries) == [k |-> "obj", v |-> entries]

\* the one element of a one-element set; {e : x \in {v}} computes v once
Only(S) == CHOOSE x \in S : TRUE

\* entries[j..] with the value of the entry of that key replaced
RECURSIVE Reassign(_, _, _, _)
Reassign(entries, j, key, val) ==
    IF j > Len(entries) THEN << >>
    ELSE <<IF entries[j].key = key THEN [key |-> key, val |-> val] ELSE entries[j]>>
         \o Reassign(entries, j + 1, key, val)

\* obj[key] = val: an existing key keeps its place and takes the new value
SetProp(entries, key, val) ==
    IF \E j \in 1..Len(entries) : entries[j].key = key
    THEN Reassign(entries, 1, key, val)
    ELSE Append(entries, [key |-> key, val |-> val])

\* obj[key]: undefined when the object has no such property
GetProp(o, key) ==
    IF o.k = "obj" /\ \E j \in 1..Len(o.v) : o.v[j].key = key
    THEN o.v[CHOOSE j \in 1..Len(o.v) : o.v[j].key = key].val
    ELSE Undefined

RECURSIVE scrubObject(_, _)
RECURSIVE scrubEntries(_, _, _, _)
RECURSIVE scrubItems(_, _, _)

\* the for-loop of scrubObject over Object.entries(obj)
scrubEntries(entries, j, acc, cfg) ==
    IF j > Len(entries) THEN acc
    ELSE Only({scrubEntries(entries, j + 1, SetProp(acc, key, val), cfg) :
                  key \in {scrubString(entries[j].key, cfg)},
                  val \in {scrubObject(entries[j].val, cfg)}})

\* obj.map(item => this.scrubObject(item)), from item j on
scrubItems(items, j, cfg) ==
    IF j > Len(items) THEN << >>
    ELSE <<scrubObject(items[j], cfg)>> \o scrubItems(items, j + 1, cfg)

\* scrubObject(obj) of a scrubber with configuration cfg
scrubObject(obj, cfg) ==
    CASE obj.k \in {"null", "undef"} -> obj
      [] obj.k = "str" -> Str(scrubString(obj.v, cfg))
      [] obj.k \in {"num", "bool"} -> obj
      [] obj.k = "arr" -> Arr(scrubItems(obj.v, 1, cfg))
      [] obj.k = "obj" -> Obj(scrubEntries(obj.v, 1, << >>, cfg))

\* scrubPII(data, config)
scrubPII(data, c) == scrubObject(data, PIIScrubber(c))

\* the decimal digits of a natural number
RECURSIVE NumText(_)
NumText(n) ==
    IF n < 10 THEN <<<<"0", "1", "2", "3", "4", "5", "6", "7", "8", "9">>[n + 1]>>
    ELSE NumText(n \div 10) \o NumText(n % 10)

\* a string between double quotes, with " and \ escaped
RECURSIVE Escaped(_)
Escaped(chars) ==
    IF chars = << >> THEN << >>
    ELSE (IF Head(chars) \in {"\"", "\\"} THEN <<"\\", Head(chars)>> ELSE <<Head(chars)>>)
         \o Escaped(Tail(chars))

Quoted(chars) == <<"\"">> \o Escaped(chars) \o <<"\"">>

RECURSIVE JSONstringify(_)
RECURSIVE stringifyItems(_, _)
RECURSIVE stringifyEntries(_, _, _)

\* the items of an array from item j on; undefined is written null
stringifyItems(items, j) ==
    IF j > Len(items) THEN << >>
    ELSE (IF j > 1 THEN <<",">> ELSE << >>)
         \o (IF items[j].k = "undef" THEN <<"n", "u", "l", "l">> ELSE JSONstringify(items[j]))
         \o stringifyItems(items, j + 1)

\* the entries of an object from entry j on; an undefined value is left out
stringifyEntries(entries, j, first) ==
    IF j > Len(entries) THEN << >>
    ELSE IF entries[j].val.k = "undef" THEN stringifyEntries(entries, j + 1, first)
    ELSE (IF first THEN << >> ELSE <<",">>)
         \o Quoted(entries[j].key) \o <<":">> \o JSONstringify(entries[j].val)
         \o stringifyEntries(entries, j + 1, FALSE)

\* JSON.stringify(v) of a value other than undefined
JSONstringify(v) ==
    CASE v.k = "null" -> <<"n", "u", "l", "l">>
      [] v.k = "num" -> NumText(v.v)
      [] v.k = "bool" -> IF v.v THEN <<"t", "r", "u", "e">> ELSE <<"f", "a", "l", "s", "e">>
      [] v.k = "str" -> Quoted(v.v)
      [] v.k = "arr" -> <<"[">> \o stringifyItems(v.v, 1) \o <<"]">>
      [] v.k = "obj" -> <<"{">> \o stringifyEntries(v.v, 1, TRUE) \o <<"}">>

\* getScrubStats(original, scrubbed)
getScrubStats(original, scrubbed) ==
    [emailsFound |-> Len(MatchAll(email, original, 1)),
     phonesFound |-> Len(MatchAll(phone, original, 1)),
     ssnsFound |-> Len(MatchAll(ssn, original, 1)),
     creditCardsFound |-> Len(MatchAll(creditCard, original, 1)),
     ipAddressesFound |-> Len(MatchAll(ipAddress, original, 1)),
     apiKeysFound |-> Len(MatchAll(apiKey, original, 1))
                      + Len(MatchAll(githubToken, original, 1))
                      + Len(MatchAll(stripeKey, original, 1)),
     totalReductions |-> Len(original) - Len(scrubbed)]

----------------------------------------------------------------------------
(* scrubObject on the objects the program holds.  A primitive is held as   *)
(* itself; an array or an object is held by its address in the heap, and   *)
(* its cell lists what it holds in turn.                                   *)

Ref(a) == [k |-> "ref", v |-> a]

\* the result of allocating a cell of a kind for the parts stored before it
Alloc(r, kind) ==
    [heap |-> Append(r.heap, [k |-> kind, v |-> r.vals]), val |-> Ref(Len(r.heap) + 1)]

RECURSIVE Store(_, _)
RECURSIVE StoreItems(_, _, _, _)
RECURSIVE StoreEntries(_, _, _, _)

StoreItemsNext(r, items, j, acc) == StoreItems(r.heap, items, j + 1, Append(acc, r.val))

StoreItems(h, items, j, acc) ==
    IF j > Len(items) THEN [heap |-> h, vals |-> acc]
    ELSE StoreItemsNext(Store(h, items[j]), items, j, acc)

StoreEntriesNext(r, entries, j, acc) ==
    StoreEntries(r.heap, entries, j + 1, Append(acc, [key |-> entries[j].key, val |-> r.val]))

StoreEntries(h, entries, j, acc) ==
    IF j > Len(entries) THEN [heap |-> h, vals |-> acc]
    ELSE StoreEntriesNext(Store(h, entries[j].val), entries, j, acc)

\* a value as the caller of scrubObject holds it: every array and object of
\* it in a cell of its own
Store(h, v) ==
    CASE v.k = "arr" -> Alloc(StoreItems(h, v.v, 1, << >>), "arr")
      [] v.k = "obj" -> Alloc(StoreEntries(h, v.v, 1, << >>), "obj")
      [] OTHER -> [heap |-> h, val |-> v]

\* the value a held value stands for
RECURSIVE Load(_, _)
Load(h, x) ==
    IF x.k # "ref" THEN x
    ELSE IF h[x.v].k = "arr"
    THEN Arr([j \in 1..Len(h[x.v].v) |-> Load(h, h[x.v].v[j])])
    ELSE Obj([j \in 1..Len(h[x.v].v) |->
                 [key |-> h[x.v].v[j].key, val |-> Load(h, h[x.v].v[j].val)]])

RECURSIVE scrubObjectAt(_, _, _)
RECURSIVE mapAt(_, _, _, _, _)
RECURSIVE entriesAt(_, _, _, _, _)

\* the result array takes the scrubbed item
mapPut(r, target, items, j, cfg) ==
    mapAt([r.heap EXCEPT ![target].v = Append(@, r.val)], target, items, j + 1, cfg)

\* obj.map(item => this.scrubObject(item)) into the new array at target
mapAt(h, target, items, j, cfg) ==
    IF j > Len(items) THEN [heap |-> h, val |-> Ref(target)]
    ELSE mapPut(scrubObjectAt(h, items[j], cfg), target, items, j, cfg)

\* scrubbed[scrubbedKey] = this.scrubObject(value)
entriesPut(r, target, entries, j, cfg) ==
    entriesAt([r.heap EXCEPT ![target].v = SetProp(@, scrubString(entries[j].key, cfg), r.val)],
              target, entries, j + 1, cfg)

\* the for-loop of scrubObject, filling the new object at target
entriesAt(h, target, entries, j, cfg) ==
    IF j > Len(entries) THEN [heap |-> h, val |-> Ref(target)]
    ELSE entriesPut(scrubObjectAt(h, entries[j].val, cfg), target, entries, j, cfg)

\* scrubObject returning the array it was given instead of a new one
scrubObjectAtReturningArrays(h, x, cfg) ==
    IF x.k # "ref" THEN [heap |-> h, val |-> scrubObject(x, cfg)]
    ELSE IF h[x.v].k = "arr"
    THEN [heap |-> h, val |-> x]
    ELSE entriesAt(Append(h, [k |-> "obj", v |-> << >>]), Len(h) + 1, h[x.v].v, 1, cfg)

\* scrubObject(obj) on held values: a primitive is returned or replaced as
\* above; for an array, map makes a new array; for an object, a new object
\* {} is made and filled
scrubObjectAt(h, x, cfg) ==
    IF x.k # "ref" THEN [heap |-> h, val |-> scrubObject(x, cfg)]
    ELSE IF h[x.v].k = "arr"
    THEN mapAt(Append(h, [k |-> "arr", v |-> << >>]), Len(h) + 1, h[x.v].v, 1, cfg)
    ELSE entriesAt(Append(h, [k |-> "obj", v |-> << >>]), Len(h) + 1, h[x.v].v, 1, cfg)

----------------------------------------------------------------------------
(* Strings of the data sets                                                *)

FragEmail == <<"a", "@", "b", ".", "c", "o">>
FragPhone == <<"5", "5", "5", "1", "2", "3", "4", "5", "6", "7">>
FragSSN == <<"1", "2", "3", "-", "4", "5", "-", "6", "7", "8", "9">>
FragCard == <<"4", "1", "1", "1", "-", "1", "1", "1", "1", "-", "1", "1", "1", "1", "-", "1", "1", "1", "1">>
FragCardPlain == <<"4", "1", "1", "1", "1", "1", "1", "1", "1", "1", "1", "1", "1", "1", "1", "1">>
FragIP == <<"1", "0", ".", "0", ".", "0", ".", "1">>
FragApiKey == <<"a", "p", "i", "_", "k", "e", "y", "=", "s", "3", "c", "r", "3", "t">>
FragGithubToken == <<"g", "h", "p", "_", "a", "b", "c", "d", "e", "f", "g", "h", "i", "j", "k", "l", "m", "n", "o", "p", "q", "r", "s", "t", "u", "v", "w", "x", "y", "z", "A", "B", "C", "D", "E", "F", "G", "H", "I", "J">>
FragStripeKey == <<"s", "k", "_", "t", "e", "s", "t", "_", "a", "b", "c", "d", "e", "f", "g", "h", "i", "j", "k", "l", "m", "n", "o", "p", "q", "r", "s", "t", "u", "v", "w", "x">>
FragSpace == <<" ">>
FragWord == <<"c", "a", "l", "l">>

FragCardSpaced == <<"4", "1", "1", "1", " ", "1", "1", "1", "1", " ", "1", "1", "1", "1", " ", "1", "1", "1", "1">>

K_email == <<"e", "m", "a", "i", "l">>
K_githubOrg == <<"g", "i", "t", "h", "u", "b", "O", "r", "g">>
K_exportTimestamp == <<"e", "x", "p", "o", "r", "t", "T", "i", "m", "e", "s", "t", "a", "m", "p">>
K_github == <<"g", "i", "t", "h", "u", "b">>
K_stripe == <<"s", "t", "r", "i", "p", "e">>
K_events == <<"e", "v", "e", "n", "t", "s">>
K_audit == <<"a", "u", "d", "i", "t">>
K_customers == <<"c", "u", "s", "t", "o", "m", "e", "r", "s">>
K_charges == <<"c", "h", "a", "r", "g", "e", "s">>
K_methods == <<"m", "e", "t", "h", "o", "d", "s">>
K_stats == <<"s", "t", "a", "t", "s">>
K_scrubbedData == <<"s", "c", "r", "u", "b", "b", "e", "d", "D", "a", "t", "a">>
K_type == <<"t", "y", "p", "e">>
K_actor == <<"a", "c", "t", "o", "r">>
K_id == <<"i", "d">>
K_action == <<"a", "c", "t", "i", "o", "n">>
K_amount == <<"a", "m", "o", "u", "n", "t">>
OrgName == <<"a", "c", "m", "e">>
Timestamp == <<"2", "0", "2", "5", "-", "0", "1", "-", "0", "1", "T", "0", "0", ":", "0", "0", ":", "0", "0", ".", "0", "0", "0", "Z">>
PushEvent == <<"P", "u", "s", "h", "E", "v", "e", "n", "t">>
AuditAction == <<"o", "r", "g", ".", "a", "d", "d", "_", "m", "e", "m", "b", "e", "r">>
CustomerPrefix == <<"c", "u", "s", "_">>
ChargePrefix == <<"c", "h", "_">>
MethodPrefix == <<"p", "m", "_">>
CardType == <<"c", "a", "r", "d">>
DigitSeq == <<"1", "2", "3", "4", "5", "6", "7", "8", "9">>

\* the --email and --githubOrg flags of the run
flags == [email |-> FragEmail, githubOrg |-> OrgName]

\* what the services hold: the i-th event, audit entry, customer, charge, method
Event(i) == Obj(<<[key |-> K_id, val |-> Num(i)], [key |-> K_type, val |-> Str(PushEvent)],
                  [key |-> K_actor, val |-> Str(FragEmail)]>>)
AuditEntry(i) == Obj(<<[key |-> K_id, val |-> Num(i)], [key |-> K_action, val |-> Str(AuditAction)],
                       [key |-> K_actor, val |-> Str(FragIP)]>>)
Customer(i) == Obj(<<[key |-> K_id, val |-> Str(CustomerPrefix \o <<DigitSeq[i]>>)],
                     [key |-> K_email, val |-> Str(FragEmail)]>>)
Charge(i) == Obj(<<[key |-> K_id, val |-> Str(ChargePrefix \o <<DigitSeq[i]>>)],
                   [key |-> K_amount, val |-> Num(100)]>>)
Method(i) == Obj(<<[key |-> K_id, val |-> Str(MethodPrefix \o <<DigitSeq[i]>>)],
                   [key |-> K_type, val |-> Str(CardType)]>>)

----------------------------------------------------------------------------
(* The external services of one run                                        *)

\* the most items (events, audit entries, customers) a service returns
MaxItems == 1

CustomerOutcomes == {"ok", "chargesError", "methodsError"}

\* ghEvents, ghAudit, stSearch: whether the request succeeds; nEvents,
\* nAudit, nCustomers: how many items it returns; stPerCustomer: what the
\* charges and payment-method requests of each customer do
Worlds ==
    {w \in [ghEvents : {"ok", "error"}, nEvents : 0..MaxItems,
            ghAudit : {"ok", "error"}, nAudit : 0..MaxItems,
            stSearch : {"ok", "error"}, nCustomers : 0..MaxItems,
            stPerCustomer : UNION {[1..c -> CustomerOutcomes] : c \in 0..MaxItems}] :
        /\ w.ghEvents = "error" => w.nEvents = 0 /\ w.ghAudit = "ok" /\ w.nAudit = 0
        /\ w.ghAudit = "error" => w.nAudit = 0
        /\ w.stSearch = "error" => w.nCustomers = 0
        /\ DOMAIN w.stPerCustomer = 1..w.nCustomers}

Credentials == {"GITHUB_TOKEN", "STRIPE_SECRET_KEY", "OPENAI_API_KEY", "ARCHIVE_PW"}

\* GitHubProvider.exportUserData(username, org): the outcome and the
\* requests made
exportUserData(w, org) ==
    IF w.ghEvents = "error"
    THEN [ok |-> FALSE, error |-> "GitHub API error", value |-> Undefined,
          calls |-> <<"github.events">>]
    ELSE LET events == [i \in 1..w.nEvents |-> Event(i)]
             audit == IF org # << >> /\ w.ghAudit = "ok"
                      THEN [i \in 1..w.nAudit |-> AuditEntry(i)] ELSE << >>
         IN  [ok |-> TRUE, error |-> "none",
              value |-> Obj(<<[key |-> K_events, val |-> Arr(events)],
                              [key |-> K_audit, val |-> Arr(audit)]>>),
              calls |-> <<"github.events">>
                        \o (IF org # << >> THEN <<"github.audit">> ELSE << >>)]

StripeResult(customers, charges, methods) ==
    Obj(<<[key |-> K_customers, val |-> Arr(customers)],
          [key |-> K_charges, val |-> Arr(charges)],
          [key |-> K_methods, val |-> Arr(methods)]>>)

\* the loop of exportCustomerData over result.customers, from customer i on
RECURSIVE CustomerLoop(_, _, _)
CustomerLoop(w, i, acc) ==
    IF i > w.nCustomers THEN acc
    ELSE LET o == w.stPerCustomer[i]
             charges == IF o = "chargesError" THEN acc.charges
                        ELSE Append(acc.charges, Charge(i))
             methods == IF o = "ok" THEN Append(acc.methods, Method(i)) ELSE acc.methods
             made == IF o = "chargesError" THEN <<"stripe.charges">>
                     ELSE <<"stripe.charges", "stripe.paymentMethods">>
         IN  CustomerLoop(w, i + 1, [charges |-> charges, methods |-> methods,
                                     calls |-> acc.calls \o made])

\* StripeProvider.exportCustomerData(email): the outcome and the requests made
exportCustomerData(w) ==
    IF w.stSearch = "error"
    THEN [ok |-> FALSE, error |-> "Stripe API error", value |-> Undefined,
          calls |-> <<"stripe.search">>]
    ELSE LET customers == [i \in 1..w.nCustomers |-> Customer(i)]
             r == CustomerLoop(w, 1, [charges |-> << >>, methods |-> << >>,
                                      calls |-> <<"stripe.search">>])
         IN  [ok |-> TRUE, error |-> "none",
              value |-> StripeResult(customers, r.charges, r.methods),
              calls |-> r.calls]

----------------------------------------------------------------------------
(* PerformanceMonitor                                                      *)

\* the memory readings (MB) process.memoryUsage() may give
MemReadings == {120, 310}
\* the reading above which the sampling callback warns
WarnAboveMB == 250

\* no monitor constructed yet
NoMonitor ==
    [timer |-> FALSE, peakMemoryMB |-> 0, processedItems |-> 0, estimatedTotal |-> 0,
     currentStage |-> "none", warned |-> FALSE]

\* new PerformanceMonitor(): the fields and the interval timer started
NewPerformanceMonitor ==
    [timer |-> TRUE, peakMemoryMB |-> 0, processedItems |-> 0, estimatedTotal |-> 0,
     currentStage |-> "initialization", warned |-> FALSE]

\* updateProgress(stage, processed, estimated?)
updateProgress(m, stage, processed, estimated) ==
    [m EXCEPT !.currentStage = stage, !.processedItems = processed,
              !.estimatedTotal = IF estimated # 0 THEN estimated ELSE @]

\* the peak above which logSummary reports the limit as exceeded
LimitMB == 300

\* the sampling callback made to end the monitoring when the reading is
\* above the limit
sampleMemoryStoppingAboveLimit(m, mb) ==
    [m EXCEPT !.peakMemoryMB = IF mb > @ THEN mb ELSE @,
              !.warned = @ \/ mb > WarnAboveMB,
              !.timer = IF mb > LimitMB THEN FALSE ELSE @,
              !.currentStage = IF mb > LimitMB THEN "aborted" ELSE @]

\* the setInterval callback of startMemoryMonitoring, reading mb
sampleMemory(m, mb) ==
    [m EXCEPT !.peakMemoryMB = IF mb > @ THEN mb ELSE @,
              !.warned = @ \/ mb > WarnAboveMB]

\* what the sampling callback writes for a reading
sampleOutput(mb) ==
    IF mb > WarnAboveMB THEN <<[level |-> "warn", text |-> "High memory usage"]>> ELSE << >>

\* what forceGarbageCollection() writes
forceGarbageCollectionOutput(exposed) ==
    IF exposed THEN <<[level |-> "log", text |-> "Garbage collection triggered"]>> ELSE << >>

\* the last line logSummary() writes; every line before it is a
\* console.log of the metrics
logSummaryOutput(m) ==
    <<[level |-> "log", text |-> "Performance Summary"],
      IF m.peakMemoryMB > LimitMB
      THEN [level |-> "warn", text |-> "Memory limit exceeded"]
      ELSE [level |-> "log", text |-> "Memory usage within limits"]>>

\* stop(): the interval is cleared
stop(m) == [m EXCEPT !.timer = FALSE]

----------------------------------------------------------------------------
(* GDPRClassifier (src/unnamed/part_002)                                   *)

\* typeof v
TypeOf(v) ==
    CASE v.k = "undef" -> <<"u", "n", "d", "e", "f", "i", "n", "e", "d">>
      [] v.k = "num" -> <<"n", "u", "m", "b", "e", "r">>
      [] v.k = "bool" -> <<"b", "o", "o", "l", "e", "a", "n">>
      [] v.k = "str" -> <<"s", "t", "r", "i", "n", "g">>
      [] OTHER -> <<"o", "b", "j", "e", "c", "t">>

\* typeof v === 'object' && v !== null
IsObjectLike(v) == v.k \in {"arr", "obj"}

\* a value in a boolean position
Truthy(v) ==
    CASE v.k \in {"undef", "null"} -> FALSE
      [] v.k = "num" -> v.v # 0
      [] v.k = "bool" -> v.v
      [] v.k = "str" -> v.v # << >>
      [] OTHER -> TRUE

\* prefix.split('.').length
RECURSIVE SplitLength(_)
SplitLength(prefix) ==
    IF prefix = << >> THEN 1
    ELSE (IF Head(prefix) = "." THEN 1 ELSE 0) + SplitLength(Tail(prefix))

RECURSIVE extractFieldPaths(_, _)
RECURSIVE pathsOfEntries(_, _, _)

\* the loop of extractFieldPaths over Object.entries(obj), from entry j on
pathsOfEntries(entries, j, prefix) ==
    IF j > Len(entries) THEN << >>
    ELSE <<IF prefix # << >> THEN prefix \o <<".">> \o entries[j].key ELSE entries[j].key>>
         \o (IF IsObjectLike(entries[j].val) /\ SplitLength(prefix) < 3
             THEN extractFieldPaths(entries[j].val,
                     IF prefix # << >> THEN prefix \o <<".">> \o entries[j].key
                     ELSE entries[j].key)
             ELSE << >>)
         \o pathsOfEntries(entries, j + 1, prefix)

\* extractFieldPaths without the recursive calls: the keys of a mapping, or
\* the index-0 path of a sequence
extractTopLevelPaths(obj, prefix) ==
    CASE obj.k = "obj" ->
            [j \in 1..Len(obj.v) |->
                IF prefix # << >> THEN prefix \o <<".">> \o obj.v[j].key ELSE obj.v[j].key]
      [] obj.k = "arr" /\ Len(obj.v) > 0 -> <<prefix \o <<"[", "0", "]">>>>
      [] OTHER -> << >>

\* extractFieldPaths(obj, prefix)
extractFieldPaths(obj, prefix) ==
    CASE obj.k = "obj" -> pathsOfEntries(obj.v, 1, prefix)
      [] obj.k = "arr" /\ Len(obj.v) > 0 ->
            <<prefix \o <<"[", "0", "]">>>>
            \o (IF IsObjectLike(obj.v[1])
                THEN extractFieldPaths(obj.v[1], prefix \o <<"[", "0", "]">>)
                ELSE << >>)
      [] OTHER -> << >>

RECURSIVE createDataSample(_, _, _)
RECURSIVE sampleEntries(_, _, _, _, _)

\* the loop of createDataSample over Object.entries(obj), from entry j on;
\* count is j - 1, and the loop breaks once count >= 5
sampleEntries(entries, j, sample, maxDepth, currentDepth) ==
    IF j > Len(entries) \/ j - 1 >= 5 THEN sample
    ELSE sampleEntries(entries, j + 1,
             SetProp(sample, entries[j].key,
                     createDataSample(entries[j].val, maxDepth, currentDepth + 1)),
             maxDepth, currentDepth)

\* createDataSample with the leaf case returning the leaf itself
createDataSampleKeepingLeaves(obj, maxDepth, currentDepth) ==
    IF currentDepth >= maxDepth \/ obj.k \in {"null", "undef"} THEN Str(TypeOf(obj))
    ELSE CASE obj.k = "arr" ->
                 IF Len(obj.v) = 0 THEN Arr(<< >>)
                 ELSE Arr(<<createDataSample(obj.v[1], maxDepth, currentDepth + 1)>>)
           [] obj.k = "obj" -> Obj(sampleEntries(obj.v, 1, << >>, maxDepth, currentDepth))
           [] OTHER -> obj

\* createDataSample(obj, maxDepth, currentDepth)
createDataSample(obj, maxDepth, currentDepth) ==
    IF currentDepth >= maxDepth \/ obj.k \in {"null", "undef"} THEN Str(TypeOf(obj))
    ELSE CASE obj.k = "arr" ->
                 IF Len(obj.v) = 0 THEN Arr(<< >>)
                 ELSE Arr(<<createDataSample(obj.v[1], maxDepth, currentDepth + 1)>>)
           [] obj.k = "obj" -> Obj(sampleEntries(obj.v, 1, << >>, maxDepth, currentDepth))
           [] OTHER -> Str(TypeOf(obj))

K_fields == <<"f", "i", "e", "l", "d", "s">>
K_sampleData == <<"s", "a", "m", "p", "l", "e", "D", "a", "t", "a">>

RECURSIVE StrEach(_, _)
StrEach(texts, j) ==
    IF j > Len(texts) THEN << >> ELSE <<Str(texts[j])>> \o StrEach(texts, j + 1)

\* dataStructure of classifyData: { fields: fieldPaths, sampleData: ... }
dataStructure(fieldPaths, scrubbedData) ==
    Obj(<<[key |-> K_fields, val |-> Arr(StrEach(fieldPaths, 1))],
          [key |-> K_sampleData, val |-> createDataSample(scrubbedData, 2, 0)]>>)

\* the argument of openai.chat.completions.create: the user message is the
\* fixed instruction followed by JSON.stringify(dataStructure, null, 2)
CompletionRequest(fieldPaths, scrubbedData) ==
    [model |-> "gpt-4o",
     system |-> "getSystemPrompt()",
     user |-> [instruction |-> "Classify these data fields according to GDPR articles for a DSAR evidence pack:",
               json |-> dataStructure(fieldPaths, scrubbedData)],
     temperature |-> "0.1",
     max_tokens |-> 2000]

K_field == <<"f", "i", "e", "l", "d">>
K_article == <<"a", "r", "t", "i", "c", "l", "e">>
K_reasoning == <<"r", "e", "a", "s", "o", "n", "i", "n", "g">>
K_dataType == <<"d", "a", "t", "a", "T", "y", "p", "e">>
K_sensitivity == <<"s", "e", "n", "s", "i", "t", "i", "v", "i", "t", "y">>
High == <<"h", "i", "g", "h">>

\* the filter of classifyData without the test of sensitivity
IsValidWithoutSensitivity(c) ==
    /\ Truthy(GetProp(c, K_field))
    /\ Truthy(GetProp(c, K_article))
    /\ Truthy(GetProp(c, K_reasoning))
    /\ Truthy(GetProp(c, K_dataType))

\* c.field && c.article && c.reasoning && c.dataType && c.sensitivity
IsValidClassification(c) ==
    /\ Truthy(GetProp(c, K_field))
    /\ Truthy(GetProp(c, K_article))
    /\ Truthy(GetProp(c, K_reasoning))
    /\ Truthy(GetProp(c, K_dataType))
    /\ Truthy(GetProp(c, K_sensitivity))

\* classifications.filter(c => ...), from element j on
RECURSIVE validClassifications(_, _)
validClassifications(classifications, j) ==
    IF j > Len(classifications) THEN << >>
    ELSE (IF IsValidClassification(classifications[j]) THEN <<classifications[j]>> ELSE << >>)
         \o validClassifications(classifications, j + 1)

\* [...new Set(valid.map(c => c.article))]: each article once, in the order
\* of its first occurrence
RECURSIVE articlesFound(_, _, _)
articlesFound(valid, j, acc) ==
    IF j > Len(valid) THEN acc
    ELSE articlesFound(valid, j + 1,
             IF \E i \in 1..Len(acc) : acc[i] = GetProp(valid[j], K_article)
             THEN acc ELSE Append(acc, GetProp(valid[j], K_article)))

\* valid.filter(c => c.sensitivity === 'high').length
highSensitivityFields(valid) ==
    Cardinality({j \in 1..Len(valid) : GetProp(valid[j], K_sensitivity) = Str(High)})

ClassificationResult(classifications, totalFields, articles, high, elapsed) ==
    [classifications |-> classifications,
     summary |-> [totalFields |-> totalFields,
                  articlesFound |-> articles,
                  highSensitivityFields |-> high,
                  processingTime |-> elapsed]]

NoError == [name |-> "none", message |-> << >>]

\* the catch of classifyData: whatever was thrown is replaced by
\* new Error(`GDPR classification failed: ${error.message}`)
ClassificationFailed(thrown) ==
    [name |-> "Error", message |-> <<"GDPR classification failed: ", thrown.message>>]

\* what the statements after the await throw for the content of a response;
\* name "none" if they throw nothing.  JSON.parse either throws a
\* SyntaxError or returns a value (content.json)
ThrownOnResponse(content) ==
    IF ~Truthy(content)
    THEN [name |-> "Error", message |-> "No response from GPT-4o"]
    ELSE IF ~content.json.ok
    THEN [name |-> "Error", message |-> "Failed to parse GPT-4o response as JSON: SyntaxError"]
    ELSE IF content.json.value.k = "null"
    THEN [name |-> "TypeError", message |-> "Cannot read properties of null (reading 'filter')"]
    ELSE IF content.json.value.k # "arr"
    THEN [name |-> "TypeError", message |-> "classifications.filter is not a function"]
    ELSE IF \E j \in 1..Len(content.json.value.v) : content.json.value.v[j].k = "null"
    THEN [name |-> "TypeError", message |-> "Cannot read properties of null (reading 'field')"]
    ELSE [name |-> "none", message |-> ""]

\* the call to classifyData up to its first await, or to its early return
classifyData ==
    /\ cpc = "ready"
    /\ IF Len(extractFieldPaths(cdata, << >>)) = 0
       THEN /\ \E elapsed \in {0, 3} :
                  cresult' = ClassificationResult(<< >>, 0, << >>, 0, elapsed)
            /\ cpc' = "returned"
            /\ UNCHANGED request
       ELSE /\ request' = CompletionRequest(extractFieldPaths(cdata, << >>), cdata)
            /\ cpc' = "awaiting"
            /\ UNCHANGED cresult
    /\ UNCHANGED <<cdata, reply, cerror>>

\* the request is rejected: the catch rethrows
CompletionRejects ==
    /\ cpc = "awaiting"
    /\ reply.kind = "rejects"
    /\ cerror' = ClassificationFailed(reply.error)
    /\ cpc' = "failed"
    /\ UNCHANGED <<cdata, reply, request, cresult>>

\* the request is answered: the rest of classifyData
CompletionResolves ==
    /\ cpc = "awaiting"
    /\ reply.kind = "responds"
    /\ IF ThrownOnResponse(reply.content).name # "none"
       THEN /\ cerror' = ClassificationFailed(ThrownOnResponse(reply.content))
            /\ cpc' = "failed"
            /\ UNCHANGED cresult
       ELSE /\ \E elapsed \in {0, 3} :
                  cresult' = ClassificationResult(
                      validClassifications(reply.content.json.value.v, 1),
                      Len(extractFieldPaths(cdata, << >>)),
                      articlesFound(validClassifications(reply.content.json.value.v, 1), 1, << >>),
                      highSensitivityFields(validClassifications(reply.content.json.value.v, 1)),
                      elapsed)
            /\ cpc' = "returned"
            /\ UNCHANGED cerror
    /\ UNCHANGED <<cdata, reply, request>>

----------------------------------------------------------------------------
(* Generate.run                                                            *)

\* stripeData before the Stripe step: { customers: [], charges: [], methods: [] }
EmptyStripeData == StripeResult(<< >>, << >>, << >>)

\* Step 3: mergedData
MergeData(gh, st) ==
    Obj(<<[key |-> K_email, val |-> Str(flags.email)],
          [key |-> K_githubOrg, val |-> Str(flags.githubOrg)],
          [key |-> K_exportTimestamp, val |-> Str(Timestamp)],
          [key |-> K_github, val |-> gh],
          [key |-> K_stripe, val |-> st]>>)

\* obj.prop throws a TypeError when obj is undefined or null
ReadThrows(v) == v.k \in {"undef", "null"}

\* Step 4 after the call of scrubPII: the log line reads
\* scrubResult.stats.itemsFound; then the request of step 5 or 6
AfterScrub(merged, sr, m4) ==
    IF ReadThrows(GetProp(sr, K_stats))
    THEN [pc |-> "failed", error |-> "TypeError", merged |-> merged, scrub |-> sr,
          perf |-> m4, stages |-> <<"data-merge", "pii-scrubbing">>]
    ELSE [pc |-> IF env["OPENAI_API_KEY"] THEN "classify" ELSE "package",
          error |-> "none", merged |-> merged, scrub |-> sr,
          perf |-> updateProgress(m4, "gdpr-classification", 5, 7),
          stages |-> <<"data-merge", "pii-scrubbing", "gdpr-classification">>]

\* Steps 3 and 4, which run without yielding once stripeData is known: the
\* merge, the call of scrubPII, and what follows it
MergeAndScrub(gh, st, m) ==
    AfterScrub(MergeData(gh, st), scrubPII(MergeData(gh, st), NoConfig),
               updateProgress(updateProgress(m, "data-merge", 3, 7), "pii-scrubbing", 4, 7))

\* what step 5 passes to classifyData: scrubResult.scrubbedData
classifierInput == GetProp(scrubResult, K_scrubbedData)

\* what step 6 puts in evidenceData: scrubbed and scrubStats
evidenceScrubbed == GetProp(scrubResult, K_scrubbedData)
evidenceScrubStats == GetProp(scrubResult, K_stats)

RunInit ==
    /\ pc = "init"
    /\ env \in [Credentials -> BOOLEAN]
    /\ world \in Worlds
    /\ perf = NoMonitor
    /\ stages = << >>
    /\ calls = << >>
    /\ githubData = Undefined
    /\ stripeData = Undefined
    /\ mergedData = Undefined
    /\ scrubResult = Undefined
    /\ log = << >>
    /\ error = "none"

\* run() up to the first request with the check of the GitHub token left out
BeginWithoutTokenCheck ==
    /\ pc = "init"
    /\ perf' = updateProgress(updateProgress(NewPerformanceMonitor, "initialization", 0, 7),
                              "github-export", 1, 7)
    /\ stages' = stages \o <<"initialization", "cleanup", "github-export">>
    /\ pc' = "github"
    /\ log' = log \o <<"start">>
    /\ UNCHANGED <<env, world, calls, githubData, stripeData, mergedData, scrubResult, error>>

\* run() up to the first request: the monitor, the cleanup of old files,
\* and step 1 up to the call of exportUserData
Begin ==
    /\ pc = "init"
    /\ perf' = updateProgress(updateProgress(NewPerformanceMonitor, "initialization", 0, 7),
                              "github-export", 1, 7)
    /\ stages' = stages \o <<"initialization", "cleanup", "github-export">>
    /\ IF ~env["GITHUB_TOKEN"]
       THEN /\ pc' = "failed"
            /\ error' = "GitHub token required for data export"
            /\ log' = log \o <<"start", "github-token-not-found">>
       ELSE /\ pc' = "github"
            /\ error' = error
            /\ log' = log \o <<"start">>
    /\ UNCHANGED <<env, world, calls, githubData, stripeData, mergedData, scrubResult>>

\* exportUserData settles; then step 2 up to the call of exportCustomerData,
\* or, with no Stripe key, steps 2 to 4
GitHubReturn ==
    /\ pc = "github"
    /\ \E r \in {exportUserData(world, flags.githubOrg)} :
       LET m2 == updateProgress(perf, "stripe-export", 2, 7)
       IN  /\ calls' = calls \o r.calls
           /\ IF ~r.ok
              THEN /\ pc' = "failed"
                   /\ error' = r.error
                   /\ UNCHANGED <<perf, stages, githubData, stripeData, mergedData,
                                  scrubResult, log>>
              ELSE /\ githubData' = r.value
                   /\ IF env["STRIPE_SECRET_KEY"]
                      THEN /\ pc' = "stripe"
                           /\ perf' = m2
                           /\ stages' = Append(stages, "stripe-export")
                           /\ stripeData' = EmptyStripeData
                           /\ log' = Append(log, "github-ok")
                           /\ UNCHANGED <<mergedData, scrubResult, error>>
                      ELSE \E n \in {MergeAndScrub(r.value, EmptyStripeData, m2)} :
                               /\ pc' = n.pc
                               /\ perf' = n.perf
                               /\ stages' = Append(stages, "stripe-export") \o n.stages
                               /\ stripeData' = EmptyStripeData
                               /\ mergedData' = n.merged
                               /\ scrubResult' = n.scrub
                               /\ log' = log \o <<"github-ok", "stripe-skipped", "merged">>
                               /\ error' = n.error
    /\ UNCHANGED <<env, world>>

\* exportCustomerData settles; then steps 3 and 4
StripeReturn ==
    /\ pc = "stripe"
    /\ \E r \in {exportCustomerData(world)} :
           /\ calls' = calls \o r.calls
           /\ IF ~r.ok
              THEN /\ pc' = "failed"
                   /\ error' = r.error
                   /\ UNCHANGED <<perf, stages, stripeData, mergedData, scrubResult, log>>
              ELSE \E n \in {MergeAndScrub(githubData, r.value, perf)} :
                       /\ pc' = n.pc
                       /\ perf' = n.perf
                       /\ stages' = stages \o n.stages
                       /\ stripeData' = r.value
                       /\ mergedData' = n.merged
                       /\ scrubResult' = n.scrub
                       /\ log' = log \o <<"stripe-ok", "merged">>
                       /\ error' = n.error
    /\ UNCHANGED <<env, world, githubData>>

\* the interval timer of the monitor fires; it can only while the run awaits
\* a request or after the run has ended with the timer still set
MemorySample ==
    /\ pc \in {"github", "stripe", "classify", "package", "failed"}
    /\ perf.timer
    /\ \E mb \in MemReadings : perf' = sampleMemory(perf, mb)
    /\ UNCHANGED <<pc, env, world, stages, calls, githubData, stripeData, mergedData,
                   scrubResult, log, error>>

\* the classifier harness is not in use
ClassifyIdle ==
    /\ cdata = Undefined
    /\ reply = [kind |-> "none"]
    /\ request = Undefined
    /\ cresult = Undefined
    /\ cerror = NoError
    /\ cpc = "idle"

\* the scrubber harness is not in use during a run
ScrubIdle ==
    /\ input = Undefined
    /\ config = NoConfig
    /\ output = Undefined
    /\ spc = "idle"
    /\ heap = << >>
    /\ inputRef = Undefined
    /\ outputRef = Undefined

Init == RunInit /\ ScrubIdle /\ ClassifyIdle /\ UtilitiesIdle

Next ==
    \/ Begin /\ UNCHANGED <<svars, cvars, uvars>>
    \/ GitHubReturn /\ UNCHANGED <<svars, cvars, uvars>>
    \/ StripeReturn /\ UNCHANGED <<svars, cvars, uvars>>
    \/ MemorySample /\ UNCHANGED <<svars, cvars, uvars>>

Spec == Init /\ [][Next]_vars

\* no run is in progress
RunOff ==
    /\ pc = "off"
    /\ env = [c \in Credentials |-> FALSE]
    /\ world = CHOOSE w \in Worlds : w.ghEvents = "error" /\ w.stSearch = "error"
    /\ perf = NoMonitor
    /\ stages = << >>
    /\ calls = << >>
    /\ githubData = Undefined
    /\ stripeData = Undefined
    /\ mergedData = Undefined
    /\ scrubResult = Undefined
    /\ log = << >>
    /\ error = "none"

----------------------------------------------------------------------------
(* The scrubber on its own (ScrubSpec): a PIIScrubber is constructed with  *)
(* a configuration and scrubObject is called once on an input value.       *)

\* the fragments texts are put together from
Fragments == {FragEmail, FragPhone, FragSSN, FragIP, FragApiKey, FragGithubToken,
              FragStripeKey, FragSpace}

\* every fragment a string leaf or a key is taken from
AllFragments == Fragments \cup {FragCard, FragCardPlain, FragCardSpaced, FragWord}

\* the largest number of fragments a text is put together from
MaxFrags == 2

RECURSIVE TextsOf(_)
TextsOf(count) ==
    IF count = 0 THEN {<< >>}
    ELSE LET T == TextsOf(count - 1) IN T \cup {t \o f : t \in T, f \in Fragments}

Texts == TextsOf(MaxFrags)

KeyK == <<"k">>
KeyN == <<"n">>
KeyTexts == {KeyK, FragEmail, FragApiKey}

\* string leaves holding a text of up to MaxFrags fragments
TextLeaves == {Str(t) : t \in Texts}

\* scalars, one-fragment leaves, and objects and arrays over fragments
ShapedValues ==
    {Str(f) : f \in AllFragments}
    \cup {Null, Undefined, Num(7), Bool(TRUE), Arr(<< >>), Obj(<< >>)}
    \cup {Obj(<<[key |-> kt, val |-> Str(f)]>>) : kt \in KeyTexts, f \in Fragments}
    \cup UNION {{Obj(<<[key |-> f, val |-> Num(1)], [key |-> g, val |-> Str(g)]>>) :
                    g \in {FragSSN, FragWord, KeyK} \ {f}} :
                        f \in {FragEmail, FragPhone, FragWord}}
    \cup {Obj(<<[key |-> KeyK,
                 val |-> Arr(<<Str(f), Num(7), Null,
                               Obj(<<[key |-> KeyN, val |-> Str(f \o FragSpace \o g)]>>)>>)]>>) :
             f \in {FragEmail, FragApiKey, FragWord}, g \in {FragPhone, FragIP}}

Toggles == {"maskEmails", "maskPhones", "maskSSNs", "maskCreditCards", "maskIPAddresses"}

AllOff == [t \in Toggles |-> FALSE]
AllOn == [t \in Toggles |-> TRUE]

ConfigChoices == {NoConfig} \cup [Toggles -> BOOLEAN]
MainConfigs == {NoConfig, AllOff, AllOn}

ScrubInit ==
    /\ \/ input \in TextLeaves /\ config \in MainConfigs
       \/ input \in ShapedValues /\ config \in ConfigChoices
    /\ output = Undefined
    /\ spc = "ready"
    /\ heap = Store(<< >>, input).heap
    /\ inputRef = Store(<< >>, input).val
    /\ outputRef = Undefined
    /\ ClassifyIdle
    /\ RunOff
    /\ UtilitiesIdle

\* new PIIScrubber(config).scrubObject(input)
ScrubCall ==
    /\ spc = "ready"
    /\ output' = scrubPII(input, config)
    /\ \E r \in {scrubObjectAt(heap, inputRef, PIIScrubber(config))} :
          heap' = r.heap /\ outputRef' = r.val
    /\ spc' = "done"
    /\ UNCHANGED <<input, config, inputRef>>

ScrubNext == ScrubCall /\ UNCHANGED <<cvars, rvars, uvars>>

ScrubSpec == ScrubInit /\ [][ScrubNext]_vars

----------------------------------------------------------------------------
(* The classifier on its own (ClassifySpec): classifyData is called once   *)
(* on a value, and the reasoning service rejects or answers the request.   *)

Art15 == <<"A", "r", "t", ".", " ", "1", "5">>
Art6 == <<"A", "r", "t", ".", " ", "6">>
Low == <<"l", "o", "w">>
UnknownField == <<"z", "z">>

\* a record of a response with every attribute set
FullRecord(field, article, sensitivity) ==
    Obj(<<[key |-> K_field, val |-> Str(field)],
          [key |-> K_article, val |-> Str(article)],
          [key |-> K_reasoning, val |-> Str(FragWord)],
          [key |-> K_dataType, val |-> Str(CardType)],
          [key |-> K_sensitivity, val |-> Str(sensitivity)]>>)

\* the elements a response array is made of: complete records for a field of
\* the data and for a field that is not one, a record without sensitivity,
\* a record whose reasoning is the empty string, null, and a bare string
ResponseRecords ==
    {FullRecord(KeyK, Art15, High),
     FullRecord(KeyK \o <<".">> \o KeyN, Art6, Low),
     FullRecord(UnknownField, Art15, High),
     Obj(<<[key |-> K_field, val |-> Str(KeyK)],
           [key |-> K_article, val |-> Str(Art6)],
           [key |-> K_reasoning, val |-> Str(FragWord)],
           [key |-> K_dataType, val |-> Str(CardType)]>>),
     Obj(<<[key |-> K_field, val |-> Str(KeyK)],
           [key |-> K_article, val |-> Str(Art15)],
           [key |-> K_reasoning, val |-> Str(<< >>)],
           [key |-> K_dataType, val |-> Str(CardType)],
           [key |-> K_sensitivity, val |-> Str(Low)]>>),
     Null,
     Str(FragWord)}

\* the largest number of elements of a response array
MaxRecords == 2

RECURSIVE RecordLists(_)
RecordLists(count) ==
    IF count = 0 THEN {<< >>}
    ELSE LET L == RecordLists(count - 1) IN L \cup {Append(l, r) : l \in L, r \in ResponseRecords}

\* response.choices[0]?.message?.content with what JSON.parse makes of it
Content(json) == [k |-> "str", v |-> <<"t", "e", "x", "t">>, json |-> json]

ResponseContents ==
    {Undefined, Str(<< >>), Content([ok |-> FALSE])}
    \cup {Content([ok |-> TRUE, value |-> v]) : v \in {Null, Num(1), Obj(<< >>), Str(FragWord)}}
    \cup {Content([ok |-> TRUE, value |-> Arr(l)]) : l \in RecordLists(MaxRecords)}

\* the errors the client library rejects a request with
ServiceErrors ==
    {[name |-> "APIConnectionError", message |-> "Connection error."],
     [name |-> "AuthenticationError", message |-> "401 Incorrect API key provided"]}

ServiceReplies ==
    {[kind |-> "rejects", error |-> e] : e \in ServiceErrors}
    \cup {[kind |-> "responds", content |-> c] : c \in ResponseContents}

\* arrays nested n deep around one string: [[...["call"]...]]
RECURSIVE NestedArrays(_)
NestedArrays(n) ==
    IF n = 0 THEN Str(FragWord) ELSE Arr(<<NestedArrays(n - 1)>>)

\* how deep the nested-array input nests
ArrayNesting == 6

\* a mapping key that contains the path separator
KeyDotted == <<"k", ".", "n">>

SixKeys == <<K_email, K_type, K_actor, K_id, K_action, K_amount>>

\* the values classifyData is called on
ClassifierInputs ==
    {Undefined, Str(FragEmail), Arr(<< >>), Obj(<< >>),
     Obj(<<[key |-> KeyK, val |-> Str(FragEmail)]>>),
     Obj(<<[key |-> KeyK, val |-> Obj(<<[key |-> KeyN, val |-> Str(FragPhone)]>>)]>>),
     Obj(<<[key |-> KeyK, val |-> Obj(<<[key |-> KeyN, val |->
           Obj(<<[key |-> KeyK, val |-> Obj(<<[key |-> KeyN, val |-> Str(FragEmail)]>>)]>>)]>>)]>>),
     Obj(<<[key |-> KeyK, val |-> Arr(<<Str(FragEmail), Str(FragWord)>>)],
           [key |-> KeyN, val |-> Arr(<<Arr(<<Arr(<<Str(FragSSN)>>)>>)>>)]>>),
     Obj([j \in 1..6 |-> [key |-> SixKeys[j], val |-> IF j = 6 THEN Num(7) ELSE Str(FragEmail)]]),
     Arr(<<Obj(<<[key |-> KeyK, val |-> Str(FragEmail)], [key |-> KeyN, val |-> Null]>>),
           Obj(<<[key |-> KeyN, val |-> Bool(TRUE)]>>)>>),
     Null, Num(7),
     Arr(<<Obj(<<[key |-> KeyK, val |-> Str(FragWord)]>>),
           Obj(<<[key |-> KeyN, val |-> Obj(<<[key |-> K_id, val |-> Num(7)]>>)]>>)>>),
     NestedArrays(ArrayNesting),
     Obj(<<[key |-> KeyDotted, val |-> Obj(<<[key |-> KeyDotted, val |->
           Obj(<<[key |-> KeyK, val |-> Str(FragWord)]>>)]>>)]>>)}

ClassifyInit ==
    /\ cdata \in ClassifierInputs
    /\ reply \in ServiceReplies
    /\ request = Undefined
    /\ cresult = Undefined
    /\ cerror = NoError
    /\ cpc = "ready"
    /\ ScrubIdle
    /\ RunOff
    /\ UtilitiesIdle

ClassifyNext ==
    \/ classifyData /\ UNCHANGED <<svars, rvars, uvars>>
    \/ CompletionRejects /\ UNCHANGED <<svars, rvars, uvars>>
    \/ CompletionResolves /\ UNCHANGED <<svars, rvars, uvars>>

ClassifySpec == ClassifyInit /\ [][ClassifyNext]_vars

----------------------------------------------------------------------------
(* StreamProcessor (src/src/utils/performance.ts)                          *)

\* the longest item list, the largest chunk size, and how many traversals
\* are run on one instance
MaxLen == 3
MaxChunk == 2
MaxTraversals == 2

\* the items 1, 2, ..., n
RECURSIVE UpTo(_)
UpTo(n) == IF n = 0 THEN << >> ELSE UpTo(n - 1) \o <<n>>

\* the item lists traversed
ItemLists == {UpTo(n) : n \in 0..MaxLen} \cup {<<2, 2, 1>>}

\* items.slice(start, end) taking the element at position end as well
arraySliceThrough(a, start, end) == SubSeq(a, start + 1, Min(end + 1, Len(a)))

\* items.slice(start, end): the elements at the 0-based positions
\* start .. end - 1 that exist
arraySlice(a, start, end) == SubSeq(a, start + 1, Min(end, Len(a)))

\* the function the workers apply to an element
transform(x) == x + 10

\* a chunk worker that applies transform to each element of its chunk
RECURSIVE MapEach(_)
MapEach(chunk) ==
    IF chunk = << >> THEN << >> ELSE <<transform(Head(chunk))>> \o MapEach(Tail(chunk))

\* results.push(...chunkResults) with the new elements put in front
pushInFront(res, more) == more \o res

\* results.push(...chunkResults), results.push(result)
push(res, more) == res \o more

\* the errors a worker may fail with
WorkerErrors == {"EWORKER", "ETIMEOUT"}

\* the argument of the worker invocation at loop index i
WorkerArgument(md, its, i) ==
    IF md = "chunks" THEN arraySlice(its, i, i + chunkSize) ELSE <<its[i + 1]>>

\* the record kept of a traversal that has ended
Outcome(md, its, ok, value) ==
    [mode |-> md, items |-> its, ok |-> ok, value |-> value]

\* the loop test at index i, with pending worker invocations unsettled,
\* and what follows it up to the next await: the next worker invocation,
\* or the return of results
LoopHead(md, its, i, res, pending) ==
    /\ idx' = i
    /\ results' = res
    /\ IF i < Len(its)
       THEN /\ invoked' = Append(invoked, WorkerArgument(md, its, i))
            /\ inFlight' = pending + 1
            /\ tpc' = "working"
            /\ returned' = [ok |-> FALSE]
            /\ outcomes' = outcomes
       ELSE /\ invoked' = invoked
            /\ inFlight' = pending
            /\ tpc' = "done"
            /\ returned' = [ok |-> TRUE, value |-> res]
            /\ outcomes' = Append(outcomes, Outcome(md, its, TRUE, res))

\* a traversal is called on the instance: the state it starts from and the
\* call up to its first await
StartTraversal(md, its) ==
    /\ tpc \in {"idle", "done", "failed"}
    /\ traversal < MaxTraversals
    /\ traversal' = traversal + 1
    /\ streamItems' = its
    /\ mode' = md
    /\ reports' = << >>
    /\ yields' = 0
    /\ rejection' = "none"
    /\ workerError' = "none"
    /\ idx' = 0
    /\ results' = << >>
    /\ IF 0 < Len(its)
       THEN /\ invoked' = <<WorkerArgument(md, its, 0)>>
            /\ inFlight' = inFlight + 1
            /\ tpc' = "working"
            /\ returned' = [ok |-> FALSE]
            /\ outcomes' = outcomes
       ELSE /\ invoked' = << >>
            /\ inFlight' = inFlight
            /\ tpc' = "done"
            /\ returned' = [ok |-> TRUE, value |-> << >>]
            /\ outcomes' = Append(outcomes, Outcome(md, its, TRUE, << >>))
    /\ UNCHANGED <<chunkSize, processedCount>>

\* processInChunks(items, processor, onProgress) up to its first await
processInChunks == \E its \in ItemLists : StartTraversal("chunks", its)

\* processSequentially(items, processor, onProgress) up to its first await
processSequentially == \E its \in ItemLists : StartTraversal("sequential", its)

\* the onProgress call after a chunk or an item
Report(processed, total) == [processed |-> processed, total |-> total]

\* the worker's promise resolves: the rest of the loop body up to the next
\* await.  processSequentially yields only when i % 100 === 0 and otherwise
\* goes on to the next item in the same turn
ProcessorResolves ==
    /\ tpc = "working"
    /\ IF mode = "chunks"
       THEN /\ results' = push(results, MapEach(invoked[Len(invoked)]))
            /\ processedCount' = processedCount + Len(invoked[Len(invoked)])
            /\ reports' = Append(reports, Report(processedCount', Len(streamItems)))
            /\ yields' = yields + 1
            /\ inFlight' = inFlight - 1
            /\ tpc' = "yielding"
            /\ UNCHANGED <<idx, invoked, returned, outcomes>>
       ELSE /\ processedCount' = processedCount + 1
            /\ reports' = Append(reports, Report(processedCount', Len(streamItems)))
            /\ IF idx % 100 = 0
               THEN /\ results' = push(results, MapEach(<<streamItems[idx + 1]>>))
                    /\ yields' = yields + 1
                    /\ inFlight' = inFlight - 1
                    /\ tpc' = "yielding"
                    /\ UNCHANGED <<idx, invoked, returned, outcomes>>
               ELSE /\ yields' = yields
                    /\ LoopHead(mode, streamItems, idx + 1,
                                push(results, MapEach(<<streamItems[idx + 1]>>)),
                                inFlight - 1)
    /\ UNCHANGED <<chunkSize, streamItems, mode, rejection, workerError, traversal>>

\* the worker's promise is rejected and the rejection is swallowed: the
\* loop goes on to the next chunk or item
ProcessorRejectsAndContinues ==
    /\ tpc = "working"
    /\ \E e \in WorkerErrors : workerError' = e
    /\ LoopHead(mode, streamItems, idx + (IF mode = "chunks" THEN chunkSize ELSE 1),
                results, inFlight - 1)
    /\ UNCHANGED <<chunkSize, processedCount, streamItems, mode, yields, reports,
                   rejection, traversal>>

\* the worker's promise is rejected: the await throws out of the loop and
\* the traversal's promise is rejected with the same error
ProcessorRejects ==
    /\ tpc = "working"
    /\ \E e \in WorkerErrors : workerError' = e /\ rejection' = e
    /\ inFlight' = inFlight - 1
    /\ tpc' = "failed"
    /\ outcomes' = Append(outcomes, Outcome(mode, streamItems, FALSE, << >>))
    /\ UNCHANGED <<chunkSize, processedCount, streamItems, mode, idx, results, invoked,
                   yields, reports, returned, traversal>>

\* the setImmediate callback runs: the loop increment and the next turn
ImmediateFires ==
    /\ tpc = "yielding"
    /\ LoopHead(mode, streamItems, idx + (IF mode = "chunks" THEN chunkSize ELSE 1),
                results, inFlight)
    /\ UNCHANGED <<chunkSize, processedCount, streamItems, mode, yields, reports,
                   rejection, workerError, traversal>>

----------------------------------------------------------------------------
(* The StreamProcessor on its own (StreamSpec): an instance is constructed *)
(* and traversals are run on it, one after the other                       *)

\* new StreamProcessor(chunkSize), not yet used
StreamInit ==
    /\ chunkSize \in 1..MaxChunk
    /\ processedCount = 0 /\ streamItems = << >> /\ mode = "none"
    /\ idx = 0 /\ results = << >> /\ invoked = << >> /\ inFlight = 0 /\ yields = 0
    /\ reports = << >> /\ returned = [ok |-> FALSE] /\ rejection = "none"
    /\ workerError = "none" /\ traversal = 0 /\ outcomes = << >> /\ tpc = "idle"
    /\ ScrubIdle
    /\ ClassifyIdle
    /\ RunOff
    /\ BufferIdle
    /\ CleanupIdle
    /\ MonitorIdle

StreamNext ==
    \/ processInChunks /\ UNCHANGED <<svars, cvars, rvars, bvars, fvars, mvars>>
    \/ processSequentially /\ UNCHANGED <<svars, cvars, rvars, bvars, fvars, mvars>>
    \/ ProcessorResolves /\ UNCHANGED <<svars, cvars, rvars, bvars, fvars, mvars>>
    \/ ProcessorRejects /\ UNCHANGED <<svars, cvars, rvars, bvars, fvars, mvars>>
    \/ ImmediateFires /\ UNCHANGED <<svars, cvars, rvars, bvars, fvars, mvars>>

StreamSpec == StreamInit /\ [][StreamNext]_vars

\* the event loop runs a setImmediate callback that is queued, and the
\* worker's promise settles
StreamFairSpec ==
    /\ StreamSpec
    /\ WF_vars(ImmediateFires /\ UNCHANGED <<svars, cvars, rvars, bvars, fvars, mvars>>)
    /\ WF_vars((ProcessorResolves \/ ProcessorRejects) /\ UNCHANGED <<svars, cvars, rvars, bvars, fvars, mvars>>)

----------------------------------------------------------------------------
(* DataBuffer (src/src/utils/performance.ts)                               *)

\* how many items are added, how many times the client calls flush(), and
\* the largest maxSize
MaxAdds == 4
MaxFlushes == 2
MaxBufferSize == 3

\* const data = [...this.buffer] without this.buffer = []
takeBatchKeepingBuffer(buf) == [data |-> buf, buffer |-> buf]

\* const data = [...this.buffer]; this.buffer = []
takeBatch(buf) == [data |-> buf, buffer |-> << >>]

\* the body of flush() on a buffer holding buf, up to its await: the call
\* of flushCallback(data)
FlushBody(buf) ==
    IF Len(buf) > 0
    THEN /\ buffer' = takeBatch(buf).buffer
         /\ batches' = Append(batches, takeBatch(buf).data)
         /\ unresolved' = unresolved \cup {Len(batches) + 1}
    ELSE /\ buffer' = buf
         /\ UNCHANGED <<batches, unresolved>>

\* add(item) up to its await: the push, and flush() when the buffer is full
add ==
    /\ maxSize > 0
    /\ added < MaxAdds
    /\ added' = added + 1
    /\ IF Len(Append(buffer, added + 1)) >= maxSize
       THEN FlushBody(Append(buffer, added + 1))
       ELSE /\ buffer' = Append(buffer, added + 1)
            /\ UNCHANGED <<batches, unresolved>>
    /\ UNCHANGED <<maxSize, flushCalls>>

\* flush() called by the client, up to its await
flush ==
    /\ maxSize > 0
    /\ Len(flushCalls) < MaxFlushes
    /\ FlushBody(buffer)
    /\ flushCalls' = Append(flushCalls,
                        [batch |-> IF Len(buffer) > 0 THEN Len(batches) + 1 ELSE 0,
                         addedAtCall |-> added])
    /\ UNCHANGED <<maxSize, added>>

\* the promise of one invocation of flushCallback resolves, and with it
\* the flush() and the add() awaiting it
FlushCallbackResolves ==
    /\ \E b \in unresolved : unresolved' = unresolved \ {b}
    /\ UNCHANGED <<maxSize, buffer, batches, added, flushCalls>>

\* size()
size == Len(buffer)

----------------------------------------------------------------------------
(* The DataBuffer on its own (BufferSpec): a buffer is constructed, and    *)
(* its client calls add and flush without waiting for earlier calls        *)

\* new DataBuffer(maxSize, flushCallback)
BufferInit ==
    /\ maxSize \in 1..MaxBufferSize
    /\ buffer = << >> /\ batches = << >> /\ unresolved = {}
    /\ added = 0 /\ flushCalls = << >>
    /\ ScrubIdle
    /\ ClassifyIdle
    /\ RunOff
    /\ StreamIdle
    /\ CleanupIdle
    /\ MonitorIdle

BufferNext ==
    \/ add /\ UNCHANGED <<svars, cvars, rvars, tvars, fvars, mvars>>
    \/ flush /\ UNCHANGED <<svars, cvars, rvars, tvars, fvars, mvars>>
    \/ FlushCallbackResolves /\ UNCHANGED <<svars, cvars, rvars, tvars, fvars, mvars>>

BufferSpec == BufferInit /\ [][BufferNext]_vars

----------------------------------------------------------------------------
(* FileCleanup (src/src/utils/cleanup.ts)                                  *)

\* how many entries the target directory has at most
MaxFiles == 2

MsPerHour == 60 * 60 * 1000

\* Date.now() at the call, in ms
Now == 100 * MsPerHour

EndsWith(p, q) == Len(p) >= Len(q) /\ SubSeq(p, Len(p) - Len(q) + 1, Len(p)) = q

\* /^prefix.*suffix$/.test(name), for a suffix that is a literal text
TestAnchored(prefix, suffix, name) ==
    /\ Len(name) >= Len(prefix) + Len(suffix)
    /\ StartsWith(name, prefix)
    /\ EndsWith(name, suffix)

\* evidenceFilePatterns.some(pattern => pattern.test(file)) with patterns
\* that may match anywhere in the name
isEvidenceFileUnanchored(name) ==
    \/ IsSubstring(<<"e", "v", "i", "d", "e", "n", "c", "e", "_">>, name) /\ IsSubstring(<<".", "p", "d", "f">>, name)
    \/ IsSubstring(<<"m", "a", "p", "p", "i", "n", "g", "_">>, name) /\ IsSubstring(<<".", "c", "s", "v">>, name)
    \/ IsSubstring(<<"e", "v", "i", "d", "e", "n", "c", "e", "_", "p", "a", "c", "k", "_">>, name) /\ IsSubstring(<<".", "z", "i", "p">>, name)

\* evidenceFilePatterns.some(pattern => pattern.test(file))
isEvidenceFile(name) ==
    \/ TestAnchored(<<"e", "v", "i", "d", "e", "n", "c", "e", "_">>, <<".", "p", "d", "f">>, name)
    \/ TestAnchored(<<"m", "a", "p", "p", "i", "n", "g", "_">>, <<".", "c", "s", "v">>, name)
    \/ TestAnchored(<<"e", "v", "i", "d", "e", "n", "c", "e", "_", "p", "a", "c", "k", "_">>, <<".", "z", "i", "p">>, name)

\* `Failed to process ${file}: ${error.message}`
FileError(name, message) == [text |-> "Failed to process", file |-> name, message |-> message]

\* `Directory scan failed: ${error.message}`
ScanError(message) == [text |-> "Directory scan failed", file |-> << >>, message |-> message]

\* the CleanupResult the call starts from
EmptyResult ==
    [returned |-> TRUE, filesScanned |-> 0, filesDeleted |-> 0, deletedFiles |-> << >>,
     totalSizeFreed |-> 0, errors |-> << >>]

\* the loop of cleanupOldFiles from entry j on: r holds the result so far
\* and the entries that remain in the directory
RECURSIVE cleanupLoop(_, _, _, _)
cleanupLoop(files, j, cutoffTime, r) ==
    IF j > Len(files) THEN r
    ELSE IF ~isEvidenceFile(files[j].name)
    THEN cleanupLoop(files, j + 1, cutoffTime, [r EXCEPT !.remaining = Append(@, files[j])])
    ELSE IF files[j].fails = "stat"
    THEN cleanupLoop(files, j + 1, cutoffTime,
            [r EXCEPT !.result.filesScanned = @ + 1,
                      !.result.errors = Append(@, FileError(files[j].name, "stat")),
                      !.remaining = Append(@, files[j])])
    ELSE IF ~(files[j].mtime < cutoffTime)
    THEN cleanupLoop(files, j + 1, cutoffTime,
            [r EXCEPT !.result.filesScanned = @ + 1,
                      !.remaining = Append(@, files[j])])
    ELSE IF files[j].fails = "unlink"
    THEN cleanupLoop(files, j + 1, cutoffTime,
            [r EXCEPT !.result.filesScanned = @ + 1,
                      !.result.errors = Append(@, FileError(files[j].name, "unlink")),
                      !.remaining = Append(@, files[j])])
    ELSE cleanupLoop(files, j + 1, cutoffTime,
            [r EXCEPT !.result.filesScanned = @ + 1,
                      !.result.filesDeleted = @ + 1,
                      !.result.deletedFiles = Append(@, files[j].name),
                      !.result.totalSizeFreed = @ + files[j].size])

\* cleanupOldFiles(): the result it returns and the entries it leaves
cleanupOldFilesOn(d, maxAge) ==
    IF ~d.exists THEN [result |-> EmptyResult, remaining |-> << >>]
    ELSE IF ~d.readable
    THEN [result |-> [EmptyResult EXCEPT !.errors = <<ScanError("readdir")>>],
          remaining |-> d.files]
    ELSE cleanupLoop(d.files, 1, Now - (maxAge * 60 * 60 * 1000),
                     [result |-> EmptyResult, remaining |-> << >>])

\* cleanupOldFiles() is called
cleanupOldFiles ==
    /\ fpc = "ready"
    /\ \E r \in {cleanupOldFilesOn(disk, maxAgeHours)} :
           /\ cleanupResult' = r.result
           /\ diskAfter' = r.remaining
    /\ cleanupThrew' = FALSE
    /\ fpc' = "done"
    /\ UNCHANGED <<maxAgeHours, disk>>

----------------------------------------------------------------------------
(* The FileCleanup on its own (CleanupSpec): an instance is constructed    *)
(* for a directory and cleanupOldFiles is called once                      *)

\* the names a directory entry may have, in the order readdir lists them
FileNames ==
    <<<<"e", "v", "i", "d", "e", "n", "c", "e", "_", "a", ".", "p", "d", "f">>,
      <<"e", "v", "i", "d", "e", "n", "c", "e", "_", "a", ".", "p", "d", "f", ".", "b", "a", "k">>,
      <<"e", "v", "i", "d", "e", "n", "c", "e", "_", "p", "a", "c", "k", "_", "a", ".", "z", "i", "p">>,
      <<"m", "a", "p", "p", "i", "n", "g", "_", "a", ".", "c", "s", "v">>,
      <<"n", "o", "t", "e", "s", ".", "t", "x", "t">>>>

\* the modification times: 1, 24 and 30 hours before the call
Mtimes == {Now - 1 * MsPerHour, Now - 24 * MsPerHour, Now - 30 * MsPerHour}

\* whether statSync or unlinkSync throws for an entry
FileFailures == {"none", "stat", "unlink"}

\* the listings of up to MaxFiles entries, from name j on
RECURSIVE Listings(_, _)
Listings(j, room) ==
    IF j > Len(FileNames) THEN {<< >>}
    ELSE Listings(j + 1, room)
         \cup (IF room = 0 THEN {}
               ELSE {<<[name |-> FileNames[j], mtime |-> t, size |-> j, fails |-> x]>> \o rest :
                        t \in Mtimes, x \in FileFailures, rest \in Listings(j + 1, room - 1)})

\* the maxAgeHours an instance is constructed with; 24 is the default
MaxAgeChoices == {1, 24}

CleanupInit ==
    /\ maxAgeHours \in MaxAgeChoices
    /\ \/ disk = [exists |-> FALSE, readable |-> FALSE, files |-> << >>]
       \/ \E fs \in Listings(1, MaxFiles) :
              disk = [exists |-> TRUE, readable |-> TRUE, files |-> fs]
       \/ \E fs \in Listings(1, 1) :
              disk = [exists |-> TRUE, readable |-> FALSE, files |-> fs]
    /\ diskAfter = << >> /\ cleanupResult = [returned |-> FALSE]
    /\ cleanupThrew = FALSE /\ fpc = "ready"
    /\ ScrubIdle
    /\ ClassifyIdle
    /\ RunOff
    /\ StreamIdle
    /\ BufferIdle
    /\ MonitorIdle

CleanupNext == cleanupOldFiles /\ UNCHANGED <<svars, cvars, rvars, tvars, bvars, mvars>>

CleanupSpec == CleanupInit /\ [][CleanupNext]_vars

----------------------------------------------------------------------------
(* The PerformanceMonitor on its own (MonitorSpec): a client constructs a  *)
(* monitor, goes through the seven stages of a pipeline calling            *)
(* updateProgress, asks for garbage collection, and calls stop, while the  *)
(* interval timer takes memory readings                                    *)

\* how many operations and samples are followed
MaxMonitorOps == 6

\* the last stage of the client's pipeline
LastStage == 7

\* the readings taken: below the warning threshold, between it and the
\* limit, and above the limit
MonitorReadings == MemReadings \cup {260}

MonitorInit ==
    /\ monitor = NewPerformanceMonitor
    /\ gcExposed \in BOOLEAN
    /\ consoleOut = << >>
    /\ monitorThrew = FALSE
    /\ clientStage = 0
    /\ monitorOps = 0
    /\ lastOp = "none"
    /\ ScrubIdle
    /\ ClassifyIdle
    /\ RunOff
    /\ StreamIdle
    /\ BufferIdle
    /\ CleanupIdle

\* the interval timer fires and the callback takes a reading
TimerFires ==
    /\ monitor.timer
    /\ monitorOps < MaxMonitorOps
    /\ \E mb \in MonitorReadings :
           /\ monitor' = sampleMemory(monitor, mb)
           /\ consoleOut' = consoleOut \o sampleOutput(mb)
    /\ monitorThrew' = FALSE
    /\ monitorOps' = monitorOps + 1
    /\ lastOp' = "sample"
    /\ UNCHANGED <<gcExposed, clientStage>>

\* the client enters its next stage and calls updateProgress(stage, n, 7)
ClientUpdatesProgress ==
    /\ clientStage < LastStage
    /\ monitorOps < MaxMonitorOps
    /\ clientStage' = clientStage + 1
    /\ monitor' = updateProgress(monitor, "stage", clientStage + 1, LastStage)
    /\ monitorThrew' = FALSE
    /\ monitorOps' = monitorOps + 1
    /\ lastOp' = "updateProgress"
    /\ UNCHANGED <<gcExposed, consoleOut>>

\* the client calls forceGarbageCollection()
ClientForcesGarbageCollection ==
    /\ monitorOps < MaxMonitorOps
    /\ consoleOut' = consoleOut \o forceGarbageCollectionOutput(gcExposed)
    /\ monitorThrew' = FALSE
    /\ monitorOps' = monitorOps + 1
    /\ lastOp' = "forceGarbageCollection"
    /\ UNCHANGED <<monitor, gcExposed, clientStage>>

\* the client calls stop()
ClientStops ==
    /\ monitorOps < MaxMonitorOps
    /\ monitor' = stop(monitor)
    /\ consoleOut' = consoleOut \o logSummaryOutput(monitor)
    /\ monitorThrew' = FALSE
    /\ monitorOps' = monitorOps + 1
    /\ lastOp' = "stop"
    /\ UNCHANGED <<gcExposed, clientStage>>

MonitorNext ==
    \/ TimerFires /\ UNCHANGED <<svars, cvars, rvars, tvars, bvars, fvars>>
    \/ ClientUpdatesProgress /\ UNCHANGED <<svars, cvars, rvars, tvars, bvars, fvars>>
    \/ ClientForcesGarbageCollection /\ UNCHANGED <<svars, cvars, rvars, tvars, bvars, fvars>>
    \/ ClientStops /\ UNCHANGED <<svars, cvars, rvars, tvars, bvars, fvars>>

MonitorSpec == MonitorInit /\ [][MonitorNext]_vars

----------------------------------------------------------------------------
(* Properties of the scrubber                                              *)

\* every string leaf and every mapping key of a value
RECURSIVE StringsOf(_)
StringsOf(v) ==
    CASE v.k = "str" -> {v.v}
      [] v.k = "arr" -> UNION {StringsOf(v.v[j]) : j \in 1..Len(v.v)}
      [] v.k = "obj" -> UNION {{v.v[j].key} \cup StringsOf(v.v[j].val) : j \in 1..Len(v.v)}
      [] OTHER -> {}

\* the patterns scrubString applies under a configuration, in pass order
EnabledPatterns(cfg) ==
    (IF cfg.maskEmails THEN <<email>> ELSE << >>)
    \o (IF cfg.maskPhones THEN <<phone>> ELSE << >>)
    \o (IF cfg.maskSSNs THEN <<ssn>> ELSE << >>)
    \o (IF cfg.maskCreditCards THEN <<creditCard>> ELSE << >>)
    \o (IF cfg.maskIPAddresses THEN <<ipAddress>> ELSE << >>)
    \o <<apiKey, githubToken, stripeKey>>
    \o cfg.maskCustomPatterns

MatchesSome(pats, t) == \E j \in 1..Len(pats) : Test(pats[j], t)

\* the secret values of the credential tokens of a text: the value of each
\* key/secret/token assignment, each GitHub token, each Stripe key
SecretsOf(t) ==
    LET a == MatchAll(apiKey, t, 1)
        g == MatchAll(githubToken, t, 1)
        k == MatchAll(stripeKey, t, 1)
    IN  {Slice(t, a[j][3][1], a[j][3][2]) : j \in 1..Len(a)}
        \cup {Slice(t, g[j][1], g[j][2]) : j \in 1..Len(g)}
        \cup {Slice(t, k[j][1], k[j][2]) : j \in 1..Len(k)}

\* C1: after scrubbing, no string leaf and no mapping key of the redacted
\* output contains a match of a pattern the configuration enables.
C1_NoEnabledPatternRemains ==
    spc = "done" =>
        \A t \in StringsOf(output) : ~MatchesSome(EnabledPatterns(PIIScrubber(config)), t)

\* C2: under every configuration, the secret value of every credential
\* token of the input appears in no string leaf and no key of the output.
C2_CredentialSecretsGone ==
    spc = "done" =>
        \A t \in StringsOf(input) : \A secret \in SecretsOf(t) :
            \A o \in StringsOf(output) : ~IsSubstring(secret, o)

----------------------------------------------------------------------------
(* Properties of a run                                                     *)

GitHubTokenRequired == "GitHub token required for data export"
ArchivePasswordRequired == "Archive password required for secure delivery"

\* the exports of the run succeed: the GitHub events request, and the Stripe
\* search when there is a key to ask with
ExportsSucceed ==
    /\ env["GITHUB_TOKEN"]
    /\ world.ghEvents = "ok"
    /\ env["STRIPE_SECRET_KEY"] => world.stSearch = "ok"

Made(call) == \E i \in 1..Len(calls) : calls[i] = call
Begun(stage) == \E i \in 1..Len(stages) : stages[i] = stage
Logged(tag) == \E i \in 1..Len(log) : log[i] = tag

\* C3: once scrubPII has returned, what the run passes to the classifier and
\* what it puts in the evidence data as scrubbed dataset and statistics are
\* the redacted copy of the merged data and its statistics: present, and
\* not the merged data itself.
C3_HandsOverRedactedCopy ==
    scrubResult # Undefined =>
        /\ classifierInput = scrubPII(mergedData, NoConfig)
        /\ evidenceScrubbed = scrubPII(mergedData, NoConfig)
        /\ evidenceScrubStats # Undefined
        /\ classifierInput # mergedData

\* C4: a failing classification does not make the run Failed: whatever the
\* classifier answers, a run with the GitHub token, the OpenAI key and the
\* archive passphrase set whose exports succeed is never Failed.
C4_ClassificationFailureNotFatal ==
    (ExportsSucceed /\ env["OPENAI_API_KEY"] /\ env["ARCHIVE_PW"]) => pc # "failed"

\* C5: a run without Stripe key, with the required credentials and with
\* every request succeeding is never Failed, makes no Stripe request, carries
\* an empty Stripe dataset forward, and logs the Stripe step as skipped.
C5_NoStripeKeyRunReachesDone ==
    (/\ ~env["STRIPE_SECRET_KEY"] /\ env["GITHUB_TOKEN"] /\ env["ARCHIVE_PW"]
     /\ world.ghEvents = "ok" /\ world.ghAudit = "ok")
    => /\ pc # "failed"
       /\ \A i \in 1..Len(calls) :
              calls[i] \notin {"stripe.search", "stripe.charges", "stripe.paymentMethods"}
       /\ stripeData \in {Undefined, EmptyStripeData}
       /\ stripeData # Undefined => Logged("stripe-skipped")
       /\ mergedData # Undefined => GetProp(mergedData, K_stripe) = EmptyStripeData

\* the stage a failure was raised in
RaisedIn(e) ==
    CASE e = GitHubTokenRequired -> "github-export"
      [] e = "GitHub API error" -> "github-export"
      [] e = "Stripe API error" -> "stripe-export"
      [] e = "TypeError" -> "pii-scrubbing"

\* in a Failed run the last stage begun is the one that raised, the data of
\* the later stages does not exist, and without the GitHub token no request
\* was made
StoppedWhereRaised ==
    /\ ~env["GITHUB_TOKEN"] => calls = << >>
    /\ pc = "failed" =>
           /\ stages[Len(stages)] = RaisedIn(error)
           /\ error \in {GitHubTokenRequired, "GitHub API error"} =>
                  /\ githubData = Undefined /\ stripeData = Undefined
                  /\ ~Made("stripe.search")
           /\ error # "TypeError" => mergedData = Undefined /\ scrubResult = Undefined
           /\ error = GitHubTokenRequired <=> ~env["GITHUB_TOKEN"]

\* a step from a Failed run leaves the run Failed and touches nothing a stage
\* writes
FailedStaysFailed ==
    pc = "failed" =>
        /\ pc' = "failed"
        /\ UNCHANGED <<stages, calls, githubData, stripeData, mergedData, scrubResult,
                       log, error>>

\* C6: Failed is terminal: after a stage has raised, the run stays Failed and
\* no later stage begins, makes a request or writes its data; a missing
\* GitHub token ends the run before any request is made.
C6_FailedIsTerminal == []StoppedWhereRaised /\ [][FailedStaysFailed]_vars

\* a run that failed on the GitHub export although a Stripe key was set
C6_Witness ==
    /\ pc = "failed" /\ error = "GitHub API error"
    /\ env["STRIPE_SECRET_KEY"] /\ perf.peakMemoryMB > 0

\* C7: without archive passphrase the run fails on the missing passphrase,
\* before packaging: a run whose exports succeed and that has no passphrase
\* ends, if it ends Failed, with the missing-passphrase failure, and no
\* packaging stage had begun.
C7_MissingPassphraseFailsBeforePackaging ==
    (ExportsSucceed /\ ~env["ARCHIVE_PW"] /\ pc = "failed")
    => error = ArchivePasswordRequired /\ ~Begun("evidence-generation")

\* C8: a failing Stripe export is absorbed: once the Stripe search has
\* failed, the run is not Failed and has merged an empty Stripe dataset.
C8_StripeFailureAbsorbed ==
    (Made("stripe.search") /\ world.stSearch = "error")
    => /\ pc # "failed"
       /\ mergedData # Undefined
       /\ GetProp(mergedData, K_stripe) = EmptyStripeData

\* C9: creating the archive never raises, so a run that has what every
\* stage before the archive needs (all credentials, classification skipped
\* for lack of an OpenAI key, exports succeeding) gets to report its
\* artifacts whatever the archive step returns: it is never Failed.
C9_FailedArchiveStillFinishes ==
    (ExportsSucceed /\ env["STRIPE_SECRET_KEY"] /\ ~env["OPENAI_API_KEY"] /\ env["ARCHIVE_PW"])
    => pc # "failed"

\* the place of a stage in the order export, merge, scrub, classify, package,
\* archive, cleanup; 0 for the set-up, which is no stage
Place(stage) ==
    CASE stage \in {"github-export", "stripe-export"} -> 1
      [] stage = "data-merge" -> 2
      [] stage = "pii-scrubbing" -> 3
      [] stage = "gdpr-classification" -> 4
      [] stage = "evidence-generation" -> 5
      [] stage = "archive-creation" -> 6
      [] stage = "cleanup" -> 7
      [] OTHER -> 0

\* C10: the stages run in the order export, merge, scrub, classify, package,
\* archive, cleanup: no stage begins before one that comes later in it.
C10_StagesInOrder ==
    \A i, j \in 1..Len(stages) :
        (i < j /\ Place(stages[i]) > 0 /\ Place(stages[j]) > 0)
            => Place(stages[i]) <= Place(stages[j])

----------------------------------------------------------------------------
(* Properties of the classifier's request                                  *)

\* the nodes of a value that are not arrays or objects
RECURSIVE ScalarsOf(_)
ScalarsOf(v) ==
    CASE v.k = "arr" -> UNION {ScalarsOf(v.v[j]) : j \in 1..Len(v.v)}
      [] v.k = "obj" -> UNION {ScalarsOf(v.v[j].val) : j \in 1..Len(v.v)}
      [] OTHER -> {v}

\* how many arrays and objects are nested in one another in a value
RECURSIVE Depth(_)
Depth(v) ==
    CASE v.k = "arr" ->
            1 + (IF Len(v.v) = 0 THEN 0
                 ELSE CHOOSE d \in {Depth(v.v[j]) : j \in 1..Len(v.v)} :
                          \A j \in 1..Len(v.v) : Depth(v.v[j]) <= d)
      [] v.k = "obj" ->
            1 + (IF Len(v.v) = 0 THEN 0
                 ELSE CHOOSE d \in {Depth(v.v[j].val) : j \in 1..Len(v.v)} :
                          \A j \in 1..Len(v.v) : Depth(v.v[j].val) <= d)
      [] OTHER -> 0

\* the largest number of keys of an object of a value
RECURSIVE Widest(_)
Widest(v) ==
    CASE v.k = "arr" ->
            IF Len(v.v) = 0 THEN 0
            ELSE CHOOSE d \in {Widest(v.v[j]) : j \in 1..Len(v.v)} :
                     \A j \in 1..Len(v.v) : Widest(v.v[j]) <= d
      [] v.k = "obj" ->
            CHOOSE d \in {Len(v.v)} \cup {Widest(v.v[j].val) : j \in 1..Len(v.v)} :
                /\ Len(v.v) <= d
                /\ \A j \in 1..Len(v.v) : Widest(v.v[j].val) <= d
      [] OTHER -> 0

\* a value with every string leaf replaced by the text w
RECURSIVE Retext(_, _)
Retext(v, w) ==
    CASE v.k = "str" -> Str(w)
      [] v.k = "arr" -> Arr([j \in 1..Len(v.v) |-> Retext(v.v[j], w)])
      [] v.k = "obj" -> Obj([j \in 1..Len(v.v) |->
                                [key |-> v.v[j].key, val |-> Retext(v.v[j].val, w)]])
      [] OTHER -> v

TypeTags == {TypeOf(v) : v \in {Undefined, Null, Num(0), Bool(TRUE), Str(<< >>)}}

\* C11: the request sent to the reasoning service holds no string leaf value
\* of the data: every leaf of the structural sample is a type tag, the sample
\* is at most 2 levels deep with at most 5 keys per object, and the data with
\* its string leaves replaced by any other text gives the identical request.
C11_RequestHoldsNoLeafValue ==
    request # Undefined =>
        /\ \A leaf \in ScalarsOf(GetProp(request.user.json, K_sampleData)) :
               leaf.k = "str" /\ leaf.v \in TypeTags
        /\ Depth(GetProp(request.user.json, K_sampleData)) <= 2
        /\ Widest(GetProp(request.user.json, K_sampleData)) <= 5
        /\ \A w \in {<< >>, FragWord, FragSSN} :
               request = CompletionRequest(extractFieldPaths(Retext(cdata, w), << >>),
                                           Retext(cdata, w))

\* a request was sent for data with string leaves nested more than two deep
C11_Witness ==
    /\ request # Undefined
    /\ Depth(cdata) > 2
    /\ \E leaf \in ScalarsOf(cdata) : leaf.k = "str" /\ leaf.v = FragEmail

----------------------------------------------------------------------------
(* Properties of the scrubber, continued                                   *)

\* C12: scrubbing is idempotent: scrubbing the redacted output again, under
\* the same configuration, returns the redacted output.
C12_ScrubIdempotent ==
    spc = "done" => scrubPII(output, config) = output

\* the addresses reachable from a held value
RECURSIVE Reach(_, _)
Reach(h, x) ==
    IF x.k # "ref" THEN {}
    ELSE {x.v} \cup UNION {Reach(h, IF h[x.v].k = "arr" THEN h[x.v].v[j] ELSE h[x.v].v[j].val) :
                              j \in 1..Len(h[x.v].v)}

\* the input stands for the value it stood for, and no array or object of
\* the output is one of the input
InputIntact ==
    spc = "done" =>
        /\ Load(heap, inputRef) = input
        /\ Reach(heap, inputRef) \cap Reach(heap, outputRef) = {}

\* a step changes no cell that exists
CellsKept == \A a \in 1..Len(heap) : heap'[a] = heap[a]

\* C13: scrubbing never mutates its input: after the call the input and
\* every array and object reachable from it are as they were, and the
\* redacted output shares no array or object with the input.
C13_InputNeverMutated == []InputIntact /\ [][CellsKept]_vars

\* an object holding an array holding an object was scrubbed
C13_Witness ==
    /\ spc = "done"
    /\ Cardinality(Reach(heap, inputRef)) >= 3
    /\ Cardinality(Reach(heap, outputRef)) >= 3
    /\ output # input

\* the held output stands for the value scrubObject computes
HeldOutputIsOutput == spc = "done" => Load(heap, outputRef) = output

\* b has the structure of a: an array has the length of the array it comes
\* from and its items correspond in order, an object has as many entries as
\* the object it comes from and they correspond in order (whatever became of
\* the keys), a string is a string, and any other leaf is the same leaf
RECURSIVE SameStructure(_, _)
SameStructure(a, b) ==
    CASE a.k = "arr" ->
            /\ b.k = "arr"
            /\ Len(b.v) = Len(a.v)
            /\ \A j \in 1..Len(a.v) : SameStructure(a.v[j], b.v[j])
      [] a.k = "obj" ->
            /\ b.k = "obj"
            /\ Len(b.v) = Len(a.v)
            /\ \A j \in 1..Len(a.v) : SameStructure(a.v[j].val, b.v[j].val)
      [] a.k = "str" -> b.k = "str"
      [] OTHER -> b = a

\* C14: the redacted output is structurally isomorphic to the input: every
\* array keeps its length and order, every object keeps its number of
\* entries, each input entry having its own output entry, and null, number
\* and boolean leaves are unchanged.
C14_OutputIsomorphicToInput ==
    spc = "done" => SameStructure(input, output)

\* the numbers of a statistics record, in the order getScrubStats lists them
StatValues(st) ==
    <<Num(st.emailsFound), Num(st.phonesFound), Num(st.ssnsFound), Num(st.creditCardsFound),
      Num(st.ipAddressesFound), Num(st.apiKeysFound), Num(st.totalReductions)>>

\* C15: scrubPII returns the redacted copy together with statistics: the
\* number of matches of each category's pattern in the serialized input, and
\* the serialized length before minus the serialized length after.
C15_ReturnsStatistics ==
    (spc = "done" /\ input.k # "undef") =>
        /\ GetProp(output, K_scrubbedData) = scrubObject(input, PIIScrubber(config))
        /\ GetProp(output, K_stats).k = "obj"
        /\ [j \in 1..Len(GetProp(output, K_stats).v) |-> GetProp(output, K_stats).v[j].val]
               = StatValues(getScrubStats(JSONstringify(input),
                                          JSONstringify(scrubObject(input, PIIScrubber(config)))))

\* C16: under the default configuration a string leaf that is exactly one
\* payment-card number, 16 digits in four groups of four separated by "-",
\* by a space or by nothing, is scrubbed to exactly the placeholder.
C16_CardBecomesPlaceholder ==
    (/\ spc = "done"
     /\ config = NoConfig
     /\ input \in {Str(FragCard), Str(FragCardSpaced), Str(FragCardPlain)})
        => output = Str(REDACTED)

\* the string leaves that are exactly one match of a category, by the toggle
\* of the category
CategoryTexts ==
    [maskEmails |-> {FragEmail},
     maskPhones |-> {FragPhone},
     maskSSNs |-> {FragSSN},
     maskCreditCards |-> {FragCard, FragCardSpaced, FragCardPlain},
     maskIPAddresses |-> {FragIP}]

\* C17: with no configuration, an email, phone, SSN or card match is redacted
\* and an IP address is left unchanged; under every configuration a match of
\* one of the five categories is redacted if the toggle of its category is
\* on and left unchanged if it is off, whatever the other toggles are.
C17_EachToggleDecidesItsCategory ==
    spc = "done" =>
        \A t \in Toggles : \A f \in CategoryTexts[t] :
            input = Str(f) =>
                /\ config = NoConfig =>
                       output = (IF t = "maskIPAddresses" THEN input ELSE Str(REDACTED))
                /\ config # NoConfig =>
                       output = (IF config[t] THEN Str(REDACTED) ELSE input)

----------------------------------------------------------------------------
(* Properties of the classifier's result                                   *)

RequiredAttributes == {K_field, K_article, K_reasoning, K_dataType, K_sensitivity}

\* the record has every required attribute
HasEveryAttribute(c) == \A a \in RequiredAttributes : GetProp(c, a) # Undefined

\* the record has every required attribute, and none is null, the empty
\* string, 0 or false
HasEveryAttributeNonEmpty(c) ==
    \A a \in RequiredAttributes :
        GetProp(c, a) \notin {Undefined, Null, Str(<< >>), Num(0), Bool(FALSE)}

\* classifyData returned after the service answered
ReturnedFromResponse == cpc = "returned" /\ request # Undefined

C19_FieldsAreExtractedPaths ==
    ReturnedFromResponse =>
        \A j \in 1..Len(cresult.classifications) :
            \E i \in 1..Len(GetProp(request.user.json, K_fields).v) :
                GetProp(cresult.classifications[j], K_field)
                    = GetProp(request.user.json, K_fields).v[i]

\* the service answered with text that is not JSON, or not a JSON array
MalformedResponse ==
    /\ reply.kind = "responds"
    /\ Truthy(reply.content)
    /\ (~reply.content.json.ok \/ reply.content.json.value.k # "arr")

\* the kinds of error classifyData is rejected with when the call to the
\* service itself fails
CallFailureKinds == {ClassificationFailed(e).name : e \in ServiceErrors}

\* C20: when the response does not parse as a sequence of classification
\* objects, classifyData fails as a whole, returning no record, with an
\* error of a kind that a failure of the call itself never has.
C20_MalformedResponseHasItsOwnKind ==
    (cpc \in {"returned", "failed"} /\ request # Undefined /\ MalformedResponse) =>
        /\ cpc = "failed"
        /\ cresult = Undefined
        /\ cerror.name \notin CallFailureKinds

----------------------------------------------------------------------------
(* Properties of field-path extraction                                     *)

\* the field paths a call of classifyData extracted: those it sent, none
\* when it returned without a request
EmittedPaths ==
    IF request = Undefined THEN {}
    ELSE {GetProp(request.user.json, K_fields).v[i].v :
            i \in 1..Len(GetProp(request.user.json, K_fields).v)}

DottedPath(parent, key) == parent \o <<".">> \o key

\* every "[" of a path opens the index [0]
OnlyIndexZero(p) ==
    \A i \in 1..Len(p) :
        p[i] = "[" => i + 2 <= Len(p) /\ p[i + 1] = "0" /\ p[i + 2] = "]"

\* the keys of the mappings among the elements of a sequence after index 0
LaterKeys(items) ==
    UNION {IF items[j].k = "obj" THEN {items[j].v[i].key : i \in 1..Len(items[j].v)} ELSE {}
           : j \in 2..Len(items)}

\* the keys of a value that is a mapping
KeysOf(v) == IF v.k = "obj" THEN {v.v[i].key : i \in 1..Len(v.v)} ELSE {}

\* C21: once classifyData has extracted the field paths of its data: a
\* null, undefined or scalar root gives no path; a mapping gives a path for
\* each of its keys and the dotted path parent.key for each key of a mapping
\* nested under a key; a sequence gives paths of its index-0 element only,
\* an empty one none; no path has an index other than [0].
C21_PathsOfKeysAndFirstElements ==
    cpc # "ready" =>
        /\ cdata.k \notin {"obj", "arr"} => EmittedPaths = {} /\ cpc = "returned"
        /\ cdata.k = "obj" =>
              \A j \in 1..Len(cdata.v) :
                  /\ cdata.v[j].key \in EmittedPaths
                  /\ \A n \in KeysOf(cdata.v[j].val) :
                         DottedPath(cdata.v[j].key, n) \in EmittedPaths
        /\ cdata.k = "arr" /\ Len(cdata.v) = 0 => EmittedPaths = {} /\ cpc = "returned"
        /\ cdata.k = "arr" /\ Len(cdata.v) > 0 =>
              /\ <<"[", "0", "]">> \in EmittedPaths
              /\ \A p \in EmittedPaths : StartsWith(p, <<"[", "0", "]">>)
              /\ \A n \in KeysOf(cdata.v[1]) :
                     DottedPath(<<"[", "0", "]">>, n) \in EmittedPaths
              /\ \A n \in LaterKeys(cdata.v) \ KeysOf(cdata.v[1]) :
                     \A p \in EmittedPaths : ~IsSubstring(n, p)
        /\ \A p \in EmittedPaths : OnlyIndexZero(p)

\* the paths of a two-element sequence of mappings with different keys were
\* extracted: [0] and the key of the first element under it
C21_Witness ==
    /\ cpc # "ready"
    /\ cdata.k = "arr" /\ Len(cdata.v) = 2
    /\ LaterKeys(cdata.v) \ KeysOf(cdata.v[1]) # {}
    /\ Cardinality(EmittedPaths) = 2

\* the depth limit of extractFieldPaths
DepthLimit == 3

\* the paths of the nodes of a value that lie at most limit levels below
\* the node at depth d with path prefix, following index 0 through sequences
RECURSIVE NodesWithin(_, _, _, _)
NodesWithin(v, prefix, d, limit) ==
    IF d >= limit THEN {}
    ELSE CASE v.k = "obj" ->
                UNION {{IF prefix # << >> THEN DottedPath(prefix, v.v[j].key) ELSE v.v[j].key}
                       \cup NodesWithin(v.v[j].val,
                               IF prefix # << >> THEN DottedPath(prefix, v.v[j].key)
                               ELSE v.v[j].key, d + 1, limit)
                       : j \in 1..Len(v.v)}
           [] v.k = "arr" /\ Len(v.v) > 0 ->
                {prefix \o <<"[", "0", "]">>}
                \cup NodesWithin(v.v[1], prefix \o <<"[", "0", "]">>, d + 1, limit)
           [] OTHER -> {}

\* C22: every field path classifyData extracted addresses a node that the
\* walk reaches with at most DepthLimit nested descents below the root
\* call, a key or an index [0] counting one level each.
C22_PathsWithinDepthLimit ==
    cpc # "ready" => EmittedPaths \subseteq NodesWithin(cdata, << >>, 0, DepthLimit + 1)

----------------------------------------------------------------------------
(* Properties of the StreamProcessor                                       *)

\* C23: of the traversals run on an instance, a processInChunks and a
\* processSequentially over the same items that both succeeded returned the
\* same result sequence, whatever the chunk size.
C23_ChunksEqualSequential ==
    \A a \in 1..Len(outcomes), b \in 1..Len(outcomes) :
        (/\ outcomes[a].mode = "chunks" /\ outcomes[b].mode = "sequential"
         /\ outcomes[a].items = outcomes[b].items
         /\ outcomes[a].ok /\ outcomes[b].ok)
        => outcomes[a].value = outcomes[b].value

\* three items were traversed in chunks of two and then one by one
C23_Witness ==
    /\ Len(outcomes) = 2
    /\ chunkSize = 2
    /\ outcomes[1].mode = "chunks" /\ outcomes[2].mode = "sequential"
    /\ outcomes[1].items = outcomes[2].items /\ Len(outcomes[1].items) = 3
    /\ outcomes[1].ok /\ outcomes[2].ok

\* the concatenation of the worker arguments so far
RECURSIVE Flatten(_)
Flatten(chunks) ==
    IF chunks = << >> THEN << >> ELSE Head(chunks) \o Flatten(Tail(chunks))

\* ceil(n / k)
CeilDiv(n, k) == (n + k - 1) \div k

InChunks == mode = "chunks" /\ tpc \in {"working", "yielding", "done", "failed"}

\* what holds of the chunks of a processInChunks traversal at every moment
ChunkingRespected ==
    InChunks =>
        /\ inFlight <= 1
        /\ Len(Flatten(invoked)) <= Len(streamItems)
        /\ Flatten(invoked) = SubSeq(streamItems, 1, Len(Flatten(invoked)))
        /\ \A j \in 1..Len(invoked) :
               /\ Len(invoked[j]) >= 1
               /\ Len(invoked[j]) <= chunkSize
               /\ j < Len(invoked) => Len(invoked[j]) = chunkSize
        /\ Len(invoked) <= CeilDiv(Len(streamItems), chunkSize)
        /\ tpc = "working" => yields = Len(invoked) - 1 /\ inFlight = 1
        /\ tpc = "yielding" => yields = Len(invoked)
        /\ tpc = "done" =>
               /\ Len(invoked) = CeilDiv(Len(streamItems), chunkSize)
               /\ Flatten(invoked) = streamItems
               /\ yields = Len(invoked)
               /\ inFlight = 0

\* C24: in a processInChunks traversal the worker is invoked once for each
\* of ceil(N/K) contiguous chunks that do not overlap, all but the last of
\* K items, whose concatenation is the input, with at most one invocation
\* in flight and a yield after each chunk; and the traversal ends.
C24_ChunkedTraversalTerminates ==
    /\ []ChunkingRespected
    /\ (mode = "chunks" /\ tpc \in {"working", "yielding"}) ~> (tpc \in {"done", "failed"})

\* three items were traversed in chunks of two: two invocations, the last
\* with one item
C24_Witness ==
    /\ mode = "chunks" /\ tpc = "done"
    /\ chunkSize = 2 /\ Len(streamItems) = 3
    /\ Len(invoked) = 2 /\ Len(invoked[2]) = 1

\* once the worker has failed nothing more is invoked in that traversal
NothingAfterFailure ==
    workerError # "none" => (invoked' = invoked \/ traversal' # traversal)

\* C25: when the worker has failed, the traversal has failed with the
\* worker's error, no result sequence has been returned, and the worker is
\* not invoked again in that traversal.
C25_FailFast ==
    /\ [](workerError # "none" =>
             /\ tpc = "failed"
             /\ rejection = workerError
             /\ returned = [ok |-> FALSE]
             /\ inFlight = 0)
    /\ [][NothingAfterFailure]_vars

\* the worker failed after results had been collected and with items left
C25_Witness ==
    /\ tpc = "failed"
    /\ rejection \in WorkerErrors
    /\ results # << >>
    /\ Len(Flatten(invoked)) < Len(streamItems)

\* the number of items of the current input completed when report j is made
CompletedAt(j) ==
    IF mode = "chunks" THEN Min(j * chunkSize, Len(streamItems)) ELSE j

\* C26: every progress report of the traversal in progress carries the
\* number of items of the current input completed so far and the input
\* length, so processed never exceeds total, and the last report of a
\* traversal that succeeded has processed = total.
C26_ReportsAreCumulativePerTraversal ==
    /\ \A j \in 1..Len(reports) :
           /\ reports[j].total = Len(streamItems)
           /\ reports[j].processed = CompletedAt(j)
           /\ reports[j].processed <= reports[j].total
    /\ (tpc = "done" /\ reports # << >>) =>
           reports[Len(reports)].processed = reports[Len(reports)].total

----------------------------------------------------------------------------
(* Properties of the DataBuffer                                            *)

\* the call of flush() recorded in c has completed
Completed(c) == c.batch = 0 \/ c.batch \notin unresolved

\* C29: whatever the order of add calls, flush calls and callback
\* completions: the batches passed to the flush callback, in order, followed
\* by the buffer are the items added, in insertion order, so an item is in
\* at most one batch; a batch holds from 1 to maxSize items; and when a
\* flush() after which nothing was added has completed, size() is 0 and
\* every item added has been passed to the callback.
C29_EachItemFlushedOnceInOrder ==
    /\ Flatten(batches) \o buffer = UpTo(added)
    /\ \A j \in 1..Len(batches) : Len(batches[j]) >= 1 /\ Len(batches[j]) <= maxSize
    /\ \A j \in 1..Len(flushCalls) :
           (Completed(flushCalls[j]) /\ flushCalls[j].addedAtCall = added) =>
               /\ size = 0
               /\ Flatten(batches) = UpTo(added)

\* items were added while an earlier callback was pending, and a final
\* flush() of a partly filled buffer has completed
C29_Witness ==
    /\ Len(batches) >= 3
    /\ maxSize = 2
    /\ added = 4
    /\ \E j \in 1..Len(flushCalls) :
           /\ flushCalls[j].batch = Len(batches)
           /\ flushCalls[j].addedAtCall = added
           /\ Completed(flushCalls[j])
    /\ 1 \in unresolved

----------------------------------------------------------------------------
(* Properties of the FileCleanup                                           *)

\* the name is evidence_*.pdf, mapping_*.csv or evidence_pack_*.zip
IsEvidenceArtifactName(name) ==
    \/ StartsWith(name, <<"e", "v", "i", "d", "e", "n", "c", "e", "_">>) /\ EndsWith(name, <<".", "p", "d", "f">>) /\ Len(name) >= 13
    \/ StartsWith(name, <<"m", "a", "p", "p", "i", "n", "g", "_">>) /\ EndsWith(name, <<".", "c", "s", "v">>) /\ Len(name) >= 12
    \/ StartsWith(name, <<"e", "v", "i", "d", "e", "n", "c", "e", "_", "p", "a", "c", "k", "_">>) /\ EndsWith(name, <<".", "z", "i", "p">>) /\ Len(name) >= 18

\* the entry was last modified more than maxAgeHours before the call
OlderThanMaxAge(file) == Now - file.mtime > maxAgeHours * MsPerHour

\* the entry is among those left in the directory, unchanged
Kept(file) == \E j \in 1..Len(diskAfter) : diskAfter[j] = file

\* the result names the entry as deleted
ReportedDeleted(file) ==
    \E j \in 1..Len(cleanupResult.deletedFiles) : cleanupResult.deletedFiles[j] = file.name

\* the result has an error for the entry
ReportedFailed(file) ==
    \E j \in 1..Len(cleanupResult.errors) : cleanupResult.errors[j] = FileError(file.name, file.fails)

\* handling the entry fails: its stat fails, or it is due and its unlink fails
FailsWhenProcessed(file) ==
    /\ IsEvidenceArtifactName(file.name)
    /\ file.fails = "stat" \/ (file.fails = "unlink" /\ OlderThanMaxAge(file))

\* C28: cleanupOldFiles returns a result and never throws; an entry is gone
\* from the directory only if its name is an evidence-artifact name and it
\* is older than the maximum age; every other entry is left as it was; an
\* entry whose handling fails is reported in errors and stays, and every
\* due entry whose handling does not fail is deleted whatever happened to
\* the entries before it.
C28_DeletesOnlyOldEvidenceFiles ==
    fpc = "done" =>
        /\ ~cleanupThrew
        /\ cleanupResult.returned
        /\ ~disk.exists => cleanupResult = EmptyResult
        /\ (disk.exists /\ ~disk.readable) =>
               /\ diskAfter = disk.files
               /\ Len(cleanupResult.errors) = 1
               /\ cleanupResult.filesDeleted = 0
        /\ (disk.exists /\ disk.readable) =>
               /\ \A j \in 1..Len(disk.files) :
                      /\ ~Kept(disk.files[j]) =>
                             /\ IsEvidenceArtifactName(disk.files[j].name)
                             /\ OlderThanMaxAge(disk.files[j])
                             /\ ReportedDeleted(disk.files[j])
                      /\ (/\ IsEvidenceArtifactName(disk.files[j].name)
                          /\ OlderThanMaxAge(disk.files[j])
                          /\ disk.files[j].fails = "none") => ~Kept(disk.files[j])
                      /\ FailsWhenProcessed(disk.files[j]) <=> ReportedFailed(disk.files[j])
                      /\ ReportedFailed(disk.files[j]) => Kept(disk.files[j])
               /\ Len(diskAfter) + cleanupResult.filesDeleted = Len(disk.files)
               /\ Len(cleanupResult.deletedFiles) = cleanupResult.filesDeleted
               /\ Len(cleanupResult.errors)
                      = Cardinality({j \in 1..Len(disk.files) : FailsWhenProcessed(disk.files[j])})

\* the first entry failed and was reported, the second was deleted
C28_Witness ==
    /\ fpc = "done"
    /\ Len(disk.files) = 2
    /\ ReportedFailed(disk.files[1])
    /\ ReportedDeleted(disk.files[2])
    /\ diskAfter = <<disk.files[1]>>

----------------------------------------------------------------------------
(* Properties of the PerformanceMonitor                                    *)

\* the monitor with the fields a sample may set put aside
BesidesPeak(m) == [m EXCEPT !.peakMemoryMB = 0, !.warned = FALSE]

\* what one operation of the monitor, or one sample, may do
MonitorOnlyAdvises ==
    /\ lastOp' = "sample" =>
           /\ BesidesPeak(monitor') = BesidesPeak(monitor)
           /\ clientStage' = clientStage
           /\ \/ consoleOut' = consoleOut
              \/ /\ consoleOut' = Append(consoleOut, consoleOut'[Len(consoleOut')])
                 /\ consoleOut'[Len(consoleOut')].level = "warn"
                 /\ monitor'.peakMemoryMB > WarnAboveMB
    /\ lastOp' = "updateProgress" =>
           /\ clientStage' = clientStage + 1
           /\ monitor'.peakMemoryMB = monitor.peakMemoryMB
           /\ monitor'.timer = monitor.timer
           /\ consoleOut' = consoleOut
    /\ lastOp' = "forceGarbageCollection" =>
           /\ monitor' = monitor
           /\ clientStage' = clientStage
    /\ lastOp' = "stop" =>
           /\ monitor' = [monitor EXCEPT !.timer = FALSE]
           /\ clientStage' = clientStage
           /\ Len(consoleOut') = Len(consoleOut) + 2
           /\ consoleOut'[Len(consoleOut')].level = "warn" <=> monitor.peakMemoryMB > LimitMB

\* C27: no operation of the monitor and no sample throws, whatever the
\* readings; a sample changes nothing but the recorded peak and writes at
\* most a warning; forceGarbageCollection and stop leave the client's stage
\* alone; the client's next stage is the one after its current stage
\* whatever was read; and the summary stop() writes flags the limit as
\* exceeded exactly when the recorded peak is above it.
C27_MonitorIsAdvisory ==
    /\ [](~monitorThrew)
    /\ [](clientStage <= LastStage /\ monitor.currentStage # "aborted")
    /\ [][MonitorOnlyAdvises]_vars

\* readings above the limit were taken, the client went on to further
\* stages, and stop() wrote a summary that flags the limit as exceeded
C27_Witness ==
    /\ lastOp = "stop"
    /\ monitor.peakMemoryMB > LimitMB
    /\ clientStage >= 2
    /\ ~monitor.timer
    /\ consoleOut[1].level = "warn"
    /\ consoleOut[Len(consoleOut)] = [level |-> "warn", text |-> "Memory limit exceeded"]

\* C30: when a run has ended, the interval timer of its monitor has been
\* cleared, so no sampling remains scheduled.
C30_SamplingStoppedWhenRunEnds ==
    pc \in {"done", "failed"} => ~perf.timer


====
